---------------------------- MODULE Spec2Model ----------------------------
(***************************************************************************)
(* A model of the StatisticoAnalytics regression code:                     *)
(*   src/js/excel-integration.js   (ExcelIntegration, RegressionCalculator)*)
(*   src/unnamed/part_001          (runCompleteRegression, computeOLS)     *)
(*   src/js/regression-integration.js (prepareFromBuckets / Dropdowns)     *)
(*                                                                         *)
(* JavaScript values are triples <<tag, n, d>>:                            *)
(*   <<"num", n, d>>  with d > 0 : the number n/d in lowest terms          *)
(*   <<"num", 0, 1>> / <<"num", 0, -1>> : +0 / -0                          *)
(*   <<"num", 1, 0>> / <<"num", -1, 0>> : +Infinity / -Infinity            *)
(*   <<"num", 0, 0>>  : NaN                                                *)
(*   <<"unk", 0, 0>>  : a finite double whose value the model leaves open  *)
(*                      (computed through a rounding residue, or through   *)
(*                      Math.sqrt / Math.log / Math.pow)                   *)
(*   <<"null", 0, 0>>, <<"undef", 0, 0>> : null, undefined                 *)
(*   <<"str", 0, 0>>  : the empty string; <<"str", l, 0>>, l > 0 : a text   *)
(*                      label that is not a numeral                        *)
(* Arithmetic on numbers is exact (rational); IEEE rounding is abstracted  *)
(* except at the one place where it decides control flow, the pivot test   *)
(* of invertMatrix (see the variable residue).                             *)
(***************************************************************************)
EXTENDS Integers, Sequences, FiniteSets, TLC

VARIABLES
    input,      \* the arguments of the call under study (sheet data, options)
    residue,    \* TRUE when the data's magnitude makes cancellation leave a
                \* rounding residue of at least 1e-10 where exact arithmetic gives 0
    op,         \* "idle", or the name of the operation that has run
    ret,        \* the outcome of that operation
    sessionStorage,     \* the items of the session store, by key
    regressionResults,  \* the global regressionResults of the task pane
    regressionData,     \* the global regressionData of the task pane
    calls,      \* the routines of the calculator called so far, in order
    regressionVariablesList,    \* the global regressionVariablesList of navigation.js
    CONFIG,         \* the constant CONFIG of regression-integration.js
    integration,    \* a RegressionDiagnosticsIntegration: its two fields
    requests,       \* the requests fetch has sent, each with its reply once settled
    statusEls,      \* the status elements of the document, by id
    timers,         \* the auto-hide timers that are set and have not fired, by element id
    resultsPage,    \* what the results page shows: the p-value cells and the F-test
    rangeRead       \* a run of readMultipleRanges: its position, the promise of
                    \* the readRange it awaits and the Excel.run behind it

\* what the status messages of the task pane consist of
status == <<statusEls, timers>>

\* the state of the pages outside the regression task pane
rest == <<resultsPage, rangeRead>>
further == <<regressionVariablesList, CONFIG, integration, requests, status, rest>>

vars == <<input, residue, op, ret, sessionStorage, regressionResults, regressionData, calls,
          further>>

\* what the operations under study share besides their arguments
page == <<sessionStorage, regressionResults, regressionData, calls, further>>

-----------------------------------------------------------------------------
(* JavaScript numbers *)

NaN     == <<"num", 0, 0>>
PInf    == <<"num", 1, 0>>
NInf    == <<"num", -1, 0>>
Zero    == <<"num", 0, 1>>
NegZero == <<"num", 0, -1>>
Unk     == <<"unk", 0, 0>>
Null    == <<"null", 0, 0>>
Undef   == <<"undef", 0, 0>>
EmptyStr == <<"str", 0, 0>>
Text(l) == <<"str", l, 0>>

IAbs(i) == IF i < 0 THEN -i ELSE i

RECURSIVE GCD(_, _)
GCD(a, b) == IF b = 0 THEN a ELSE GCD(b, a % b)

\* the number n/d (d > 0) in lowest terms
Mk(n, d) == IF n = 0 THEN Zero
            ELSE LET g == GCD(IAbs(n), d) IN <<"num", n \div g, d \div g>>
Num(i) == Mk(i, 1)

IsNum(v)    == v[1] = "num"
IsUnk(v)    == v[1] = "unk"
IsNaNNum(v) == v = NaN
IsInf(v)    == IsNum(v) /\ v[3] = 0 /\ v[2] # 0
IsZero(v)   == IsNum(v) /\ v[2] = 0 /\ v[3] # 0
IsFinite(v) == IsNum(v) /\ v[3] # 0
\* the sign bit of a number that is not NaN: -1 or 1
Sgn(v) == IF IsZero(v) THEN v[3] ELSE IF v[2] < 0 THEN -1 ELSE 1
SignedZero(s) == IF s < 0 THEN NegZero ELSE Zero
SignedInf(s)  == IF s < 0 THEN NInf ELSE PInf

\* ToNumber: null -> 0, undefined -> NaN, '' -> 0, other text -> NaN
ToNumber(v) ==
    CASE v[1] = "num"   -> v
      [] v[1] = "unk"   -> v
      [] v[1] = "null"  -> Zero
      [] v[1] = "undef" -> NaN
      [] v[1] = "str"   -> IF v[2] = 0 THEN Zero ELSE NaN

NNeg(a) == IF IsUnk(a) \/ IsNaNNum(a) THEN a
           ELSE IF IsZero(a) THEN SignedZero(-a[3])
           ELSE <<"num", -a[2], a[3]>>

NAbs(a) == IF IsUnk(a) \/ IsNaNNum(a) THEN a
           ELSE IF IsZero(a) THEN Zero
           ELSE <<"num", IAbs(a[2]), a[3]>>

NMul(a, b) ==
    IF IsNaNNum(a) \/ IsNaNNum(b) THEN NaN
    ELSE IF IsUnk(a) \/ IsUnk(b)
         THEN (IF IsZero(a) \/ IsZero(b) THEN Zero ELSE Unk)
    ELSE IF IsInf(a) \/ IsInf(b)
         THEN (IF IsZero(a) \/ IsZero(b) THEN NaN ELSE SignedInf(Sgn(a) * Sgn(b)))
    ELSE IF IsZero(a) \/ IsZero(b) THEN SignedZero(Sgn(a) * Sgn(b))
    ELSE Mk(a[2] * b[2], a[3] * b[3])

NAdd(a, b) ==
    IF IsNaNNum(a) \/ IsNaNNum(b) THEN NaN
    ELSE IF IsInf(a) /\ IsInf(b) THEN (IF a = b THEN a ELSE NaN)
    ELSE IF IsInf(a) THEN a
    ELSE IF IsInf(b) THEN b
    ELSE IF IsUnk(a) \/ IsUnk(b) THEN Unk
    ELSE IF IsZero(a) /\ IsZero(b)
         THEN (IF a = NegZero /\ b = NegZero THEN NegZero ELSE Zero)
    ELSE IF IsZero(a) THEN b
    ELSE IF IsZero(b) THEN a
    ELSE Mk(a[2] * b[3] + b[2] * a[3], a[3] * b[3])

NSub(a, b) == NAdd(a, NNeg(b))

NDiv(a, b) ==
    IF IsNaNNum(a) \/ IsNaNNum(b) THEN NaN
    ELSE IF IsUnk(a) \/ IsUnk(b)
         THEN (IF IsZero(a) /\ ~IsZero(b) THEN Zero ELSE Unk)
    ELSE IF IsInf(a) /\ IsInf(b) THEN NaN
    ELSE IF IsZero(a) /\ IsZero(b) THEN NaN
    ELSE IF IsInf(b) \/ IsZero(a) THEN SignedZero(Sgn(a) * Sgn(b))
    ELSE IF IsInf(a) \/ IsZero(b) THEN SignedInf(Sgn(a) * Sgn(b))
    ELSE Mk(a[2] * b[3] * Sgn(b), a[3] * IAbs(b[2]))

\* a > b on numbers; every comparison with NaN is false, and a comparison
\* with a value the model leaves open is resolved to false
NGt(a, b) ==
    IF ~IsNum(a) \/ ~IsNum(b) \/ IsNaNNum(a) \/ IsNaNNum(b) THEN FALSE
    ELSE IF IsInf(a) \/ IsInf(b)
         THEN (a = PInf /\ b # PInf) \/ (b = NInf /\ a # NInf)
    ELSE IF IsZero(a) /\ IsZero(b) THEN FALSE
    ELSE a[2] * IAbs(b[3]) > b[2] * IAbs(a[3])

NLt(a, b) == NGt(b, a)

\* a === b on numbers (+0 === -0, NaN !== NaN)
NEq(a, b) ==
    IsNum(a) /\ IsNum(b) /\ ~IsNaNNum(a) /\ ~IsNaNNum(b)
    /\ ((IsZero(a) /\ IsZero(b)) \/ a = b)

\* the operators *, -, / and the numeric + of JavaScript, with ToNumber coercion
Mul(a, b) == NMul(ToNumber(a), ToNumber(b))
Sub(a, b) == NSub(ToNumber(a), ToNumber(b))
Div(a, b) == NDiv(ToNumber(a), ToNumber(b))
Add(a, b) == NAdd(ToNumber(a), ToNumber(b))

\* Math.abs
Abs(a) == NAbs(ToNumber(a))

\* typeof v === 'number' && isNaN(v)
IsNumberNaN(v) == v = NaN

\* the global isNaN(v): ToNumber(v) is NaN
GlobalIsNaN(v) == ToNumber(v) = NaN

\* strict equality v === w
StrictEq(v, w) == IF IsNum(v) /\ IsNum(w) THEN NEq(v, w) ELSE v = w

\* floor(x / 10^e) for x >= 0
RECURSIVE Shift10(_, _)
Shift10(x, e) == IF e = 0 THEN x ELSE Shift10(x \div 10, e - 1)

-----------------------------------------------------------------------------
(* Sequences *)

Range(s) == {s[i] : i \in 1..Len(s)}

RECURSIVE SeqSum(_, _)
\* s.reduce((sum, v) => sum + v, 0) over the numbers s[1..i]
SeqSum(s, i) == IF i = 0 THEN Zero ELSE NAdd(SeqSum(s, i - 1), s[i])

\* an outcome: a returned value, or a thrown error
Ok(v)  == [ok |-> TRUE, err |-> "", val |-> v]
Err(e) == [ok |-> FALSE, err |-> e, val |-> <<>>]

\* array[i] for a 1-based index: undefined past the end
At(s, i) == IF i >= 1 /\ i <= Len(s) THEN s[i] ELSE Undef


-----------------------------------------------------------------------------
(* RegressionCalculator: linear algebra  (src/js/excel-integration.js) *)

\* transpose(matrix): matrix[0].length rows of matrix.length entries
RC_transpose(matrix) ==
    [j \in 1..Len(matrix[1]) |-> [i \in 1..Len(matrix) |-> At(matrix[i], j)]]

RECURSIVE RC_dot(_, _, _, _)
\* the inner loop of matrixMultiply: sum += A[i][k] * B[k][j] for k < colsA
RC_dot(row, B, j, k) ==
    IF k = 0 THEN Zero
    ELSE NAdd(RC_dot(row, B, j, k - 1), Mul(At(row, k), At(B[k], j)))

\* matrixMultiply(A, B): no shape test; reading B[k][j] for a row k that B
\* does not have throws a TypeError, every other mismatch goes unnoticed
RC_matrixMultiply(A, B) ==
    IF Len(A) = 0 \/ Len(B) = 0 THEN Err("TypeError")
    ELSE LET rowsA == Len(A)
             colsA == Len(A[1])
             colsB == Len(B[1])
         IN  IF colsB >= 1 /\ colsA > Len(B) THEN Err("TypeError")
             ELSE Ok([i \in 1..rowsA |-> [j \in 1..colsB |-> RC_dot(A[i], B, j, colsA)]])

RECURSIVE VM_dot(_, _, _)
\* row.reduce((sum, val, i) => sum + val * vector[i], 0)
VM_dot(row, vector, i) ==
    IF i = 0 THEN Zero
    ELSE NAdd(VM_dot(row, vector, i - 1), Mul(row[i], At(vector, i)))

\* vectorMatrixMultiply(matrix, vector)
vectorMatrixMultiply(matrix, vector) ==
    [r \in 1..Len(matrix) |-> VM_dot(matrix[r], vector, Len(matrix[r]))]

\* the exponent of the pivot tolerance 1e-10
TolExp == 10

\* Math.abs(pivot) < 1e-10, for a = Math.abs(pivot)
BelowTol(a) ==
    IF ~IsNum(a) \/ IsNaNNum(a) \/ IsInf(a) THEN FALSE
    ELSE IF IsZero(a) THEN TRUE
    ELSE Shift10(a[3] - 1, TolExp) >= a[2]

\* [...row, ...Array(n).fill(0).map((_, j) => i === j ? 1 : 0)]
Augment(matrix) ==
    LET n == Len(matrix)
    IN  [i \in 1..n |-> matrix[i] \o [j \in 1..n |-> IF i = j THEN Num(1) ELSE Zero]]

\* an elimination without pivot search: the diagonal entry is the pivot
FindPivot_diagonal(aug, i, k, maxRow) == maxRow

RECURSIVE FindPivot(_, _, _, _)
\* the pivot search: the first row among i..n with the largest |augmented[k][i]|
FindPivot(aug, i, k, maxRow) ==
    IF k > Len(aug) THEN maxRow
    ELSE FindPivot(aug, i, k + 1,
                   IF NGt(Abs(aug[k][i]), Abs(aug[maxRow][i])) THEN k ELSE maxRow)

SwapRows(aug, i, m) == [aug EXCEPT ![i] = aug[m], ![m] = aug[i]]

\* augmented[i][j] /= pivot for every j
ScaleRow(aug, i, pivot) ==
    [aug EXCEPT ![i] = [j \in 1..Len(aug[i]) |-> Div(aug[i][j], pivot)]]

\* augmented[k][j] -= factor * augmented[i][j] for every row k other than i
EliminateColumn(aug, i) ==
    [k \in 1..Len(aug) |->
        IF k = i THEN aug[i]
        ELSE LET factor == aug[k][i]
             IN  [j \in 1..Len(aug[k]) |-> Sub(aug[k][j], Mul(factor, aug[i][j]))]]

\* augmented.map(row => row.slice(n))
RightHalf(aug) ==
    LET n == Len(aug) IN [i \in 1..n |-> SubSeq(aug[i], n + 1, Len(aug[i]))]

IsSingularPivot(pivot) == BelowTol(Abs(pivot))

RECURSIVE RC_eliminate(_, _, _)
\* the elimination loop of invertMatrix from step i on.  Where exact
\* arithmetic gives a pivot of 0 and the data leave a rounding residue that
\* passes the tolerance test, the loop goes on with that residue as pivot and
\* every entry of the result is left open.
RC_eliminate(aug, i, tainted) ==
    IF i > Len(aug)
    THEN Ok(IF tainted THEN [r \in 1..Len(aug) |-> [c \in 1..Len(aug) |-> Unk]]
            ELSE RightHalf(aug))
    ELSE LET sw    == SwapRows(aug, i, FindPivot(aug, i, i + 1, i))
             exact == sw[i][i]
             viaResidue == residue /\ (IsZero(exact) \/ IsUnk(exact))
             pivot == IF viaResidue THEN Unk ELSE exact
         IN  IF IsSingularPivot(pivot) THEN Err("Matrix is singular or near-singular")
             ELSE RC_eliminate(EliminateColumn(ScaleRow(sw, i, pivot), i), i + 1,
                               tainted \/ viaResidue)

\* invertMatrix(matrix), Gauss-Jordan with partial pivoting
invertMatrix(matrix) == RC_eliminate(Augment(matrix), 1, FALSE)

-----------------------------------------------------------------------------
(* RegressionCalculator: data cleaning and estimation *)

\* RegressionCalculator.isNaN(value)
RC_isNaN(value) ==
    value = Null \/ value = Undef \/ value = EmptyStr \/ IsNumberNaN(value)

RECURSIVE ValidIndices(_, _, _)
\* the indices i <= upto (in order) at which y and every column of X hold a value
ValidIndices(y, X, upto) ==
    IF upto = 0 THEN <<>>
    ELSE LET before == ValidIndices(y, X, upto - 1)
         IN  IF ~RC_isNaN(y[upto]) /\ \A c \in 1..Len(X) : ~RC_isNaN(At(X[c], upto))
             THEN Append(before, upto) ELSE before

\* removeMissingValues(y, X)
removeMissingValues(y, X) ==
    LET validIndices == ValidIndices(y, X, Len(y))
    IN  [y |-> [r \in 1..Len(validIndices) |-> y[validIndices[r]]],
         X |-> [c \in 1..Len(X) |->
                   [r \in 1..Len(validIndices) |-> At(X[c], validIndices[r])]]]

\* sum + val in mean(): string concatenation once a string is involved; the
\* concatenation with a text label is a text that is not a numeral
JsPlus(a, b) == IF a[1] = "str" \/ b[1] = "str" THEN Text(1) ELSE Add(a, b)

RECURSIVE MeanSum(_, _)
MeanSum(array, i) == IF i = 0 THEN Zero ELSE JsPlus(MeanSum(array, i - 1), array[i])

\* mean(array)
mean(array) == Div(MeanSum(array, Len(array)), Num(Len(array)))

RECURSIVE SumSqDev(_, _, _)
\* array.reduce((sum, v) => sum + Math.pow(v - center, 2), 0)
SumSqDev(array, center, i) ==
    IF i = 0 THEN Zero
    ELSE LET dev == Sub(array[i], center)
         IN  NAdd(SumSqDev(array, center, i - 1), NMul(dev, dev))

RECURSIVE PredictRow(_, _, _, _)
\* pred += X[j][i] * coefficients[j] for j < X.length
PredictRow(X, coefficients, i, j) ==
    IF j = 0 THEN Zero
    ELSE NAdd(PredictRow(X, coefficients, i, j - 1), Mul(At(X[j], i), At(coefficients, j)))

\* predictValues(X, coefficients): one prediction per entry of X[0]
predictValues(X, coefficients) ==
    [i \in 1..Len(X[1]) |-> PredictRow(X, coefficients, i, Len(X))]

\* calculateCoefficients(X, y), X being the list of columns
calculateCoefficients(X, y) ==
    LET XT  == RC_transpose(X)
        XTX == RC_matrixMultiply(XT, X)
    IN  IF ~XTX.ok THEN XTX
        ELSE LET XTXInv == invertMatrix(XTX.val)
             IN  IF ~XTXInv.ok THEN XTXInv
                 ELSE LET XTy == vectorMatrixMultiply(XT, y)
                      IN  Ok(vectorMatrixMultiply(XTXInv.val, XTy))

\* Math.sqrt; the root of a positive finite number is left open
Sqrt(v) ==
    LET a == ToNumber(v)
    IN  IF IsUnk(a) \/ IsNaNNum(a) \/ IsZero(a) \/ a = PInf THEN a
        ELSE IF Sgn(a) < 0 THEN NaN ELSE Unk

\* Math.log; the logarithm of a positive finite number is left open
Log(v) ==
    LET a == ToNumber(v)
    IN  IF IsUnk(a) \/ IsNaNNum(a) \/ a = PInf THEN a
        ELSE IF IsZero(a) THEN NInf
        ELSE IF Sgn(a) < 0 THEN NaN ELSE Unk

\* Math.max(1, v)
MaxWithOne(v) ==
    LET a == ToNumber(v)
    IN  IF IsUnk(a) \/ IsNaNNum(a) THEN a
        ELSE IF NGt(a, Num(1)) THEN a ELSE Num(1)

\* incompleteBeta(x, a, b) of the calculator: 0 for x <= 0, 1 for x >= 1,
\* otherwise a power series whose value is left open (NaN for NaN)
RC_incompleteBeta(x, a, b) ==
    IF IsNaNNum(x) \/ IsUnk(x) THEN x
    ELSE IF ~NGt(x, Zero) THEN Zero
    ELSE IF ~NLt(x, Num(1)) THEN Num(1)
    ELSE Unk

\* fDistributionPValue(f, df1, df2)
fDistributionPValue(f, df1, df2) ==
    IF NLt(f, Zero) THEN Num(1)
    ELSE LET x == Div(Num(df2), Add(Num(df2), Mul(Num(df1), f)))
         IN  RC_incompleteBeta(x, Mk(df2, 2), Mk(df1, 2))

\* tDistributionPValue(t, df)
tDistributionPValue(t, df) ==
    LET t1 == IF NLt(t, Zero) THEN NNeg(t) ELSE t
        x  == Div(Num(df), Add(Num(df), Mul(t1, t1)))
    IN  RC_incompleteBeta(x, Mk(df, 2), Mk(1, 2))

\* the table of tCriticalValue, in thousandths
tValues ==
    <<  <<1, 12706>>, <<2, 4303>>, <<3, 3182>>, <<4, 2776>>, <<5, 2571>>,
        <<10, 2228>>, <<20, 2086>>, <<30, 2042>>, <<40, 2021>>, <<50, 2009>>,
        <<60, 2000>>, <<80, 1990>>, <<100, 1984>>, <<120, 1980>> >>

\* a lookup that answers with the normal approximation throughout
TableLookup_normal(df, i) == Mk(196, 100)

RECURSIVE TableLookup(_, _)
\* the entry of the first key >= df, 1.96 past the last key
TableLookup(df, i) ==
    IF i > Len(tValues) THEN Mk(196, 100)
    ELSE IF df <= tValues[i][1] THEN Mk(tValues[i][2], 1000)
    ELSE TableLookup(df, i + 1)

\* tCriticalValue(alpha, df): alpha is not read
tCriticalValue(alpha, df) ==
    IF df >= tValues[Len(tValues)][1] THEN Mk(196, 100) ELSE TableLookup(df, 1)

\* a handler that records the neutral value 1 for a failed auxiliary regression
VIF_caught_neutral == Num(1)

\* what the catch block of calculateVIF records for the predictor
VIF_caught == NaN

\* calculateVIF(X, includeIntercept): one auxiliary regression per predictor;
\* whatever the try block throws becomes VIF_caught
VIFOf(X, i, startIdx) ==
    LET y      == X[i]
        others == SelectSeq([c \in 1..Len(X) |-> c], LAMBDA c : c # i /\ c >= startIdx)
        otherX == [c \in 1..Len(others) |-> X[others[c]]]
    IN  IF Len(otherX) = 0 THEN Num(1)
        ELSE LET cleanData == removeMissingValues(y, otherX)
                 result    == calculateCoefficients(otherX, cleanData.y)
             IN  IF ~result.ok THEN VIF_caught
                 ELSE LET predictions == predictValues(otherX, result.val)
                          yMean    == mean(cleanData.y)
                          SST      == SumSqDev(cleanData.y, yMean, Len(cleanData.y))
                          SSR      == SumSqDev(predictions, yMean, Len(predictions))
                          rSquared == Div(SSR, SST)
                          vifValue == Div(Num(1), Sub(Num(1), rSquared))
                      IN  MaxWithOne(vifValue)

calculateVIF(X, includeIntercept) ==
    LET startIdx == IF includeIntercept THEN 2 ELSE 1
        vif == [c \in 1..(Len(X) - startIdx + 1) |-> VIFOf(X, c + startIdx - 1, startIdx)]
    IN  IF includeIntercept THEN <<NaN>> \o vif ELSE vif

\* a guard that asks for one observation less
InsufficientObservations_lax(n, k) == n < k + 1

\* the guard of calculate: n < k + 2, k being the number of predictor columns
InsufficientObservations(n, k) == n < k + 2

\* the matrix calculate fits: the cleaned columns, after a column of ones
\* when the intercept is requested
DesignColumns(XClean, n, includeIntercept) ==
    IF includeIntercept THEN <<[r \in 1..n |-> Num(1)]>> \o XClean ELSE XClean

\* dfRegression and dfResidual of calculate, k being the predictor count
RC_dfRegression(k, includeIntercept) == IF includeIntercept THEN k ELSE k - 1
RC_dfResidual(n, k, includeIntercept) == n - (IF includeIntercept THEN k + 1 ELSE k)

\* the confidence bounds of calculate (lines 599-602)
RC_confInt(coefficients, standardErrors, dfResidual) ==
    LET tCritical == tCriticalValue(Mk(25, 1000), dfResidual)
    IN  [confIntLower |-> [i \in 1..Len(coefficients) |->
                             Sub(coefficients[i], Mul(tCritical, At(standardErrors, i)))],
         confIntUpper |-> [i \in 1..Len(coefficients) |->
                             Add(coefficients[i], Mul(tCritical, At(standardErrors, i)))]]

\* the values calculate computes once the coefficients are known, under the
\* names of its local constants
RC_locals(yClean, XMatrix, n, k, includeIntercept, coefficients, XTXInv) ==
    LET yHat      == predictValues(XMatrix, coefficients)
        residuals == [i \in 1..Len(yClean) |-> Sub(yClean[i], At(yHat, i))]
        yMean == mean(yClean)
        SST   == SumSqDev(yClean, yMean, Len(yClean))
        SSR   == SumSqDev(yHat, yMean, Len(yHat))
        SSE   == SumSqDev(residuals, Zero, Len(residuals))
        dfRegression == RC_dfRegression(k, includeIntercept)
        dfResidual   == RC_dfResidual(n, k, includeIntercept)
        MSR   == Div(SSR, Num(dfRegression))
        MSE   == Div(SSE, Num(dfResidual))
        fStat == Div(MSR, MSE)
        rSquared == Div(SSR, SST)
        standardErrors ==
            [i \in 1..Len(XTXInv) |-> Sqrt(Mul(At(XTXInv[i], i), MSE))]
        tStats == [i \in 1..Len(coefficients) |-> Div(coefficients[i], At(standardErrors, i))]
        numParams == IF includeIntercept THEN k + 1 ELSE k
        logLikelihood ==
            Mul(Mk(-n, 2), Add(Add(Unk, Log(Div(SSE, Num(n)))), Num(1)))
    IN  [coefficients   |-> coefficients,
         standardErrors |-> standardErrors,
         tStats         |-> tStats,
         pValues        |-> [i \in 1..Len(tStats) |->
                               Mul(tDistributionPValue(Abs(tStats[i]), dfResidual), Num(2))],
         confIntLower   |-> RC_confInt(coefficients, standardErrors, dfResidual).confIntLower,
         confIntUpper   |-> RC_confInt(coefficients, standardErrors, dfResidual).confIntUpper,
         vif            |-> calculateVIF(XMatrix, includeIntercept),
         yHat           |-> yHat,
         residuals      |-> residuals,
         rSquared       |-> rSquared,
         adjRSquared    |-> Sub(Num(1), Div(Mul(Sub(Num(1), rSquared), Num(n - 1)),
                                            Num(dfResidual))),
         fStat          |-> fStat,
         fPValue        |-> fDistributionPValue(fStat, dfRegression, dfResidual),
         RMSE           |-> Sqrt(MSE),
         aic            |-> Add(Mul(Num(-2), logLikelihood), Num(2 * numParams)),
         bic            |-> Add(Mul(Num(-2), logLikelihood), Mul(Log(Num(n)), Num(numParams))),
         n              |-> n,
         k              |-> k,
         dfRegression   |-> dfRegression,
         dfResidual     |-> dfResidual,
         SSR            |-> SSR,
         SSE            |-> SSE,
         SST            |-> SST,
         MSR            |-> MSR,
         MSE            |-> MSE,
         includeIntercept |-> includeIntercept]

\* a return statement that names the model and total figures dfModel and TSS
RC_result_renamed(L) ==
    [coefficients |-> L.coefficients, standardErrors |-> L.standardErrors,
     tStats |-> L.tStats, pValues |-> L.pValues,
     confIntLower |-> L.confIntLower, confIntUpper |-> L.confIntUpper,
     vif |-> L.vif, fittedValues |-> L.yHat, residuals |-> L.residuals,
     rSquared |-> L.rSquared, adjRSquared |-> L.adjRSquared,
     fStat |-> L.fStat, fPValue |-> L.fPValue, rmse |-> L.RMSE,
     aic |-> L.aic, bic |-> L.bic, n |-> L.n, k |-> L.k,
     dfModel |-> L.dfRegression, dfResidual |-> L.dfResidual,
     SSR |-> L.SSR, SSE |-> L.SSE, TSS |-> L.SST,
     MSR |-> L.MSR, MSE |-> L.MSE, includeIntercept |-> L.includeIntercept]

\* the return statement of calculate
RC_result(L) ==
    [coefficients |-> L.coefficients, standardErrors |-> L.standardErrors,
     tStats |-> L.tStats, pValues |-> L.pValues,
     confIntLower |-> L.confIntLower, confIntUpper |-> L.confIntUpper,
     vif |-> L.vif, fittedValues |-> L.yHat, residuals |-> L.residuals,
     rSquared |-> L.rSquared, adjRSquared |-> L.adjRSquared,
     fStat |-> L.fStat, fPValue |-> L.fPValue, rmse |-> L.RMSE,
     aic |-> L.aic, bic |-> L.bic, n |-> L.n, k |-> L.k,
     dfRegression |-> L.dfRegression, dfResidual |-> L.dfResidual,
     SSR |-> L.SSR, SSE |-> L.SSE, SST |-> L.SST,
     MSR |-> L.MSR, MSE |-> L.MSE, includeIntercept |-> L.includeIntercept]

\* calculate(y, X, includeIntercept)
calculate(y, X, includeIntercept) ==
    IF Len(y) = 0 THEN Err("Y variable is empty")
    ELSE IF Len(X) = 0 THEN Err("No X variables provided")
    ELSE LET cleanData == removeMissingValues(y, X)
             yClean == cleanData.y
             XClean == cleanData.X
             n == Len(yClean)
             k == Len(XClean)
         IN  IF InsufficientObservations(n, k) THEN Err("Insufficient observations")
             ELSE LET XMatrix == DesignColumns(XClean, n, includeIntercept)
                      coefficients == calculateCoefficients(XMatrix, yClean)
                  IN  IF ~coefficients.ok THEN coefficients
                      ELSE LET XTX == RC_matrixMultiply(RC_transpose(XMatrix), XMatrix)
                           IN  IF ~XTX.ok THEN XTX
                               ELSE LET XTXInv == invertMatrix(XTX.val)
                                    IN  IF ~XTXInv.ok THEN XTXInv
                                        ELSE Ok(RC_result(RC_locals(yClean, XMatrix, n, k,
                                                    includeIntercept, coefficients.val,
                                                    XTXInv.val)))

-----------------------------------------------------------------------------
(* Reading the worksheet *)

\* the clean-up of readRange: '' (and null, undefined) become null, a text
\* that is no numeral stays a text, a number stays a number
readRangeClean(values) ==
    [i \in 1..Len(values) |->
        IF values[i] = Null \/ values[i] = Undef \/ values[i] = EmptyStr THEN Null
        ELSE values[i]]

\* parseFloat(cell): NaN for '', for null and for a text without a numeric prefix
ParseFloat(cell) == IF cell[1] = "num" \/ cell[1] = "unk" THEN cell ELSE NaN

\* readRegressionData: X as rows of parseFloat'ed cells, Y from the first column
readRegressionData(xValues, yValues) ==
    [X |-> [r \in 1..Len(xValues) |-> [c \in 1..Len(xValues[r]) |-> ParseFloat(xValues[r][c])]],
     Y |-> [r \in 1..Len(yValues) |-> ParseFloat(At(yValues[r], 1))]]

-----------------------------------------------------------------------------
(* computeOLS and its helpers  (src/unnamed/part_001) *)

\* transpose(matrix)
transpose(matrix) ==
    [colIndex \in 1..Len(matrix[1]) |-> [r \in 1..Len(matrix) |-> At(matrix[r], colIndex)]]

RECURSIVE MM_dot(_, _, _, _)
MM_dot(row, B, j, k) ==
    IF k = 0 THEN Zero
    ELSE NAdd(MM_dot(row, B, j, k - 1), Mul(At(row, k), At(B[k], j)))

\* matrixMultiply(A, B): like the calculator's, no shape test
matrixMultiply(A, B) ==
    IF Len(A) = 0 THEN Ok(<<>>)
    ELSE IF Len(B) = 0 THEN Err("TypeError")
    ELSE IF Len(B[1]) >= 1 /\ Len(A[1]) > Len(B) THEN Err("TypeError")
    ELSE Ok([i \in 1..Len(A) |-> [j \in 1..Len(B[1]) |-> MM_dot(A[i], B, j, Len(A[1]))]])

RECURSIVE MI_eliminate(_, _)
\* the Gauss-Jordan loop of matrixInverse: the divisor is not tested
MI_eliminate(aug, i) ==
    IF i > Len(aug) THEN RightHalf(aug)
    ELSE LET sw      == SwapRows(aug, i, FindPivot(aug, i, i + 1, i))
             divisor == sw[i][i]
         IN  MI_eliminate(EliminateColumn(ScaleRow(sw, i, divisor), i), i + 1)

\* matrixInverse(matrix)
matrixInverse(matrix) == MI_eliminate(Augment(matrix), 1)

\* incompleteBeta(a, b, x) of part_001
incompleteBeta(a, b, x) ==
    IF IsNaNNum(x) \/ IsUnk(x) THEN x
    ELSE IF ~NGt(x, Zero) THEN Zero
    ELSE IF ~NLt(x, Num(1)) THEN Num(1)
    ELSE Unk

\* tCDF(t, df)
tCDF(t, df) ==
    LET x == Div(Num(df), Add(Num(df), Mul(t, t)))
    IN  Sub(Num(1), Mul(Mk(1, 2), incompleteBeta(Mk(df, 2), Mk(1, 2), x)))

\* fCDF(f, df1, df2)
fCDF(f, df1, df2) ==
    LET x == Div(Num(df2), Add(Num(df2), Mul(Num(df1), f)))
    IN  Sub(Num(1), incompleteBeta(Mk(df2, 2), Mk(df1, 2), x))

\* tInverse(p, df) = sqrt(df * (pow(1 - 2p, -2/df) - 1)): NaN for df = 0
tInverse(p, df) == IF IsNaNNum(p) \/ df = 0 THEN NaN ELSE Unk

RECURSIVE SumSq(_, _)
\* residuals.reduce((sum, r) => sum + r * r, 0)
SumSq(array, i) ==
    IF i = 0 THEN Zero ELSE NAdd(SumSq(array, i - 1), Mul(array[i], array[i]))

\* the record computeOLS returns
OLS_result(X, Y, n, p, k, includeIntercept, alpha, XtX_inv, beta) ==
    LET Y_fit     == [r \in 1..Len(X) |-> VM_dot(X[r], beta, Len(X[r]))]
        residuals == [i \in 1..Len(Y) |-> Sub(Y[i], At(Y_fit, i))]
        Y_mean == Div(SeqSum(Y, Len(Y)), Num(n))
        TSS    == SumSqDev(Y, Y_mean, Len(Y))
        SSR    == SumSq(residuals, Len(residuals))
        SSE    == Sub(TSS, SSR)
        R2     == Sub(Num(1), Div(SSR, TSS))
        MSE    == Div(SSR, Num(n - k))
        SE     == [i \in 1..Len(beta) |-> Sqrt(Mul(At(At(XtX_inv, i), i), MSE))]
        t_values == [i \in 1..Len(beta) |-> Div(beta[i], SE[i])]
        df     == n - k
        t_crit == tInverse(Div(alpha, Num(2)), df)
        F_stat == Div(Div(SSE, Num(k - 1)), Div(SSR, Num(n - k)))
    IN  [coefficients |-> beta,
         std_errors   |-> SE,
         t_values     |-> t_values,
         p_values     |-> [i \in 1..Len(t_values) |->
                             Mul(Num(2), Sub(Num(1), tCDF(Abs(t_values[i]), df)))],
         CI_lower     |-> [i \in 1..Len(beta) |-> Sub(beta[i], Mul(t_crit, SE[i]))],
         CI_upper     |-> [i \in 1..Len(beta) |-> Add(beta[i], Mul(t_crit, SE[i]))],
         R2           |-> R2,
         R2_adj       |-> Sub(Num(1), Div(Mul(Sub(Num(1), R2), Num(n - 1)), Num(n - k))),
         RMSE         |-> Sqrt(MSE),
         MSE          |-> MSE,
         F_stat       |-> F_stat,
         F_pvalue     |-> Sub(Num(1), fCDF(F_stat, k - 1, n - k)),
         AIC          |-> Add(Mul(Num(n), Log(Div(SSR, Num(n)))), Num(2 * k)),
         BIC          |-> Add(Mul(Num(n), Log(Div(SSR, Num(n)))), Mul(Num(k), Log(Num(n)))),
         TSS          |-> TSS,
         SSR          |-> SSR,
         SSE          |-> SSE,
         n            |-> n,
         k            |-> k,
         p            |-> p,
         df           |-> df,
         includeIntercept |-> includeIntercept,
         alpha        |-> alpha,
         residuals    |-> residuals,
         Y_fit        |-> Y_fit]

\* computeOLS(X, Y, includeIntercept, alpha), X being the list of rows
computeOLS(X0, Y, includeIntercept, alpha) ==
    IF Len(X0) = 0 THEN Err("TypeError")
    ELSE LET n == Len(Y)
             p == Len(X0[1])
             X == IF includeIntercept
                  THEN [r \in 1..Len(X0) |-> <<Num(1)>> \o X0[r]]
                  ELSE X0
             k == Len(X[1])
             Xt  == transpose(X)
             XtX == matrixMultiply(Xt, X)
         IN  IF ~XtX.ok THEN XtX
             ELSE LET XtX_inv == matrixInverse(XtX.val)
                      XtY == matrixMultiply(Xt, [r \in 1..Len(Y) |-> <<Y[r]>>])
                  IN  IF ~XtY.ok THEN XtY
                      ELSE LET prod == matrixMultiply(XtX_inv, XtY.val)
                           IN  IF ~prod.ok THEN prod
                               ELSE Ok(OLS_result(X, Y, n, p, k, includeIntercept, alpha, XtX_inv,
                                           [i \in 1..Len(prod.val) |-> At(prod.val[i], 1)]))

-----------------------------------------------------------------------------
(* Worksheets the fits are run on *)

MaxRows == 4      \* rows of a worksheet range
MaxPred == 2      \* predictor columns of a worksheet range

\* the numeric columns a range is filled from, as functions of the row
XPatterns == <<"alternating", "cyclic", "constant">>
PatternCell(q, r) ==
    CASE q = "alternating" -> Num(r % 2)
      [] q = "cyclic"      -> Num(r % 3)
      [] q = "constant"    -> Num(1)
      [] q = "linear"      -> Num(r)

NumericColumn(q, N) == [r \in 1..N |-> PatternCell(q, r)]

\* what a cell of a range holds besides a number: nothing (''), or a text
BlankKinds == {EmptyStr, Text(1)}

\* the worksheets: a response column "linear", 1..MaxPred predictor columns,
\* and at most one cell that holds no number
Holes(N, p) == {<<0, 0, Zero>>} \cup ((1..N) \X (0..p) \X BlankKinds)

WithHole(col, c, h) ==
    IF h[1] # 0 /\ h[2] = c THEN [col EXCEPT ![h[1]] = h[3]] ELSE col

Sheet(N, qs, h) ==
    [y |-> WithHole(NumericColumn("linear", N), 0, h),
     X |-> [c \in 1..Len(qs) |-> WithHole(NumericColumn(qs[c], N), c, h)]]

PatternLists(p) == [1..p -> Range(XPatterns)]

Sheets ==
    UNION { UNION { { Sheet(N, qs, h) : qs \in PatternLists(p), h \in Holes(N, p) }
                    : p \in 1..MaxPred }
            : N \in 1..MaxRows }

NoRet == [ok |-> FALSE, err |-> "not run", val |-> <<>>]

\* a global or a storage item that is null, and one that holds the object v
Unset == <<>>
Held(v) == <<v>>
IsHeld(g) == Len(g) = 1

\* a session store without items
NoItems == [regressionResults |-> Unset, regressionModelVariables |-> Unset,
            loadFromRegression |-> Unset]

\* the status elements of the task pane, and one as the page shows it first
StatusIds == {"setupStatus", "leftStatus"}
HiddenStatus == [textContent |-> "", className |-> "status", display |-> "none"]

\* no readMultipleRanges is running
NotReading == [next |-> 0, promise |-> "none", run |-> "none", value |-> <<>>, data |-> <<>>]

\* the globals of a page as loaded: nothing stored, both globals null, no call
\* made, the variables list empty
PageGlobals ==
    /\ sessionStorage = NoItems
    /\ regressionResults = Unset
    /\ regressionData = Unset
    /\ calls = <<>>
    /\ regressionVariablesList = <<>>
    /\ statusEls = [elementId \in StatusIds |-> HiddenStatus]
    /\ timers = [elementId \in StatusIds |-> 0]
    /\ resultsPage = Unset
    /\ rangeRead = NotReading

\* the cloudFunctionUrl of the file as shipped, one a deployment has put in its
\* place, and an empty one
PlaceholderUrl == "YOUR_CLOUD_FUNCTION_URL_HERE"
DeployedUrl == "https://us-central1-your-project.cloudfunctions.net/regression_diagnostics"
CloudFunctionUrls == {PlaceholderUrl, DeployedUrl, ""}

\* regression-integration.js loaded with the given URL and an integration
\* constructed: no data, no results, nothing sent
IntegrationLoad(cloudFunctionUrl) ==
    /\ CONFIG = [cloudFunctionUrl |-> cloudFunctionUrl]
    /\ integration = [regressionData |-> Unset, diagnosticsResults |-> Unset]
    /\ requests = <<>>

PageLoad == PageGlobals /\ IntegrationLoad(PlaceholderUrl)

\* the significance level typed into the alphaLevel field
Alpha == Mk(5, 100)

-----------------------------------------------------------------------------
(* Fits: RegressionCalculator.calculate and computeOLS on one worksheet *)

FitInit ==
    /\ input \in { [y |-> s.y, X |-> s.X, includeIntercept |-> b] :
                   s \in Sheets, b \in BOOLEAN }
    /\ residue \in BOOLEAN
    /\ op = "idle"
    /\ ret = NoRet
    /\ PageLoad

\* calculator.calculate(y, X, includeIntercept) on the columns as readRange
\* delivers them (steps 2 and 3 of runRegression)
Calculate ==
    /\ op = "idle"
    /\ op' = "calculate"
    /\ ret' = calculate(readRangeClean(input.y),
                        [c \in 1..Len(input.X) |-> readRangeClean(input.X[c])],
                        input.includeIntercept)
    /\ UNCHANGED <<input, residue, page>>

\* the conversion of readRegressionData followed by computeOLS, as one call on
\* the worksheet (RunCompleteRegression is the handler with its globals)
RunOLS ==
    /\ op = "idle"
    /\ op' = "computeOLS"
    /\ LET data == readRegressionData(RC_transpose(input.X),
                                      [r \in 1..Len(input.y) |-> <<input.y[r]>>])
       IN  ret' = computeOLS(data.X, data.Y, input.includeIntercept, Alpha)
    /\ UNCHANGED <<input, residue, page>>

FitNext == Calculate \/ RunOLS

SpecFit == FitInit /\ [][FitNext]_vars

\* worksheets without noise: one predictor column that is not constant and a
\* response that is exactly intercept + slope * x (slope * x without intercept)
ExactRows == 3..MaxRows
ExactPatterns == {"linear", "alternating", "cyclic"}
ExactIntercepts == {0, 1, 2}
ExactSlopes == {-1, 1, 2}

ExactSheet(N, q, b0, b1, includeIntercept) ==
    [y |-> [r \in 1..N |-> Num((IF includeIntercept THEN b0 ELSE 0)
                               + b1 * PatternCell(q, r)[2])],
     X |-> <<NumericColumn(q, N)>>,
     includeIntercept |-> includeIntercept,
     beta |-> IF includeIntercept THEN <<Num(b0), Num(b1)>> ELSE <<Num(b1)>>]

ExactInit ==
    /\ input \in { ExactSheet(N, q, b0, b1, i) :
                   N \in ExactRows, q \in ExactPatterns,
                   b0 \in ExactIntercepts, b1 \in ExactSlopes, i \in BOOLEAN }
    /\ residue \in BOOLEAN
    /\ op = "idle"
    /\ ret = NoRet
    /\ PageLoad

SpecExact == ExactInit /\ [][FitNext]_vars

-----------------------------------------------------------------------------
(* Variable selection and data preparation  (src/js/regression-integration.js) *)

\* the test for a cell without a value: null, '' or undefined
IsMissingCell(v) == v = Null \/ v = EmptyStr \/ v = Undef

\* membership in a Set: SameValueZero
SameValueZero(a, b) == a = b \/ (IsZero(a) /\ IsZero(b))

\* analyzeColumn(data).isNumeric: more than 80% of the non-missing cells are
\* numbers or parse as numbers
analyzeColumn(data) ==
    LET validData     == { i \in 1..Len(data) : ~IsMissingCell(data[i]) }
        numericValues == { i \in validData :
                             IsNum(data[i]) \/ ~GlobalIsNaN(ParseFloat(data[i])) }
    IN  [isNumeric |-> /\ Cardinality(validData) # 0
                       /\ 10 * Cardinality(numericValues) > 8 * Cardinality(validData)]

\* currentData.variables as populateVariablesTable stores them, the columns
\* named by their position
populateVariablesTable(columns) ==
    [index \in 1..Len(columns) |->
        [name |-> index, data |-> columns[index], analysis |-> analyzeColumn(columns[index])]]

RECURSIVE LastWithRole(_, _, _)
\* the variable the last role select set to role leaves in selected.Y, 0 for null
LastWithRole(roles, role, upto) ==
    IF upto = 0 THEN 0
    ELSE IF roles[upto] = role THEN upto
    ELSE LastWithRole(roles, role, upto - 1)

\* getSelectedVariables, the role selects read in table order
getSelectedVariables(variables, roles) ==
    LET indices == [i \in 1..Len(variables) |-> i]
        Y == LastWithRole(roles, "Y", Len(roles))
    IN  [Y |-> Y,
         X |-> SelectSeq(indices, LAMBDA i : roles[i] \in {"Xn", "X"}),
         categorical |-> SelectSeq(indices, LAMBDA i : roles[i] \in {"Xc", "CAT"})]

\* validateSelection().valid
validateSelection(variables, roles) ==
    LET selected == getSelectedVariables(variables, roles)
    IN  /\ selected.Y # 0
        /\ Len(selected.X) # 0
        /\ variables[selected.Y].analysis.isNumeric

RECURSIVE completeCaseIndices(_, _, _, _)
\* the rows i <= upto in which Y and every numeric X parse as numbers and every
\* categorical X has a value
completeCaseIndices(yVariable, xnVariables, xcVariables, upto) ==
    IF upto = 0 THEN <<>>
    ELSE LET before == completeCaseIndices(yVariable, xnVariables, xcVariables, upto - 1)
             isComplete ==
                /\ ~GlobalIsNaN(ParseFloat(yVariable.data[upto]))
                /\ \A v \in 1..Len(xnVariables) :
                      ~GlobalIsNaN(ParseFloat(At(xnVariables[v].data, upto)))
                /\ \A v \in 1..Len(xcVariables) :
                      ~IsMissingCell(At(xcVariables[v].data, upto))
         IN  IF isComplete THEN Append(before, upto) ELSE before

RECURSIVE uniqueCategories(_, _)
\* [...new Set(data.filter(v => v !== null && v !== '' && v !== undefined))]
uniqueCategories(data, upto) ==
    IF upto = 0 THEN <<>>
    ELSE LET before == uniqueCategories(data, upto - 1)
             v == data[upto]
         IN  IF IsMissingCell(v) \/ \E j \in 1..Len(before) : SameValueZero(before[j], v)
             THEN before ELSE Append(before, v)

\* the dummy variable of a category: data.map(v => (v === category ? 1 : 0))
dummyData(data, category) ==
    [r \in 1..Len(data) |-> IF StrictEq(data[r], category) THEN Num(1) ELSE Zero]

\* an encoding loop that starts at the first category
EncodingsOf_noReference(variable) ==
    LET categories == uniqueCategories(variable.data, Len(variable.data))
    IN  [catIdx \in 1..Len(categories) |->
            [variable |-> variable.name,
             category |-> categories[catIdx],
             data     |-> dummyData(variable.data, categories[catIdx])]]

\* the encodings one categorical variable contributes: the loop from catIdx = 1
EncodingsOf(variable) ==
    LET categories == uniqueCategories(variable.data, Len(variable.data))
    IN  [catIdx \in 1..(Len(categories) - 1) |->
            [variable |-> variable.name,
             category |-> categories[catIdx + 1],
             data     |-> dummyData(variable.data, categories[catIdx + 1])]]

RECURSIVE categoricalEncodings(_, _)
categoricalEncodings(xcVariables, upto) ==
    IF upto = 0 THEN <<>>
    ELSE categoricalEncodings(xcVariables, upto - 1) \o EncodingsOf(xcVariables[upto])

\* the record both preparations return; the display name variable_category
\* of a dummy is the pair of its parts
preparedData(yVariable, xnVariables, xcVariables) ==
    LET cases == completeCaseIndices(yVariable, xnVariables, xcVariables,
                                     Len(yVariable.data))
        encodings == categoricalEncodings(xcVariables, Len(xcVariables))
        allXNames == [c \in 1..Len(xnVariables) |-> <<xnVariables[c].name>>]
                     \o [c \in 1..Len(encodings) |->
                            <<encodings[c].variable, encodings[c].category>>]
        Y == [i \in 1..Len(cases) |-> ParseFloat(yVariable.data[cases[i]])]
    IN  [Y |-> Y,
         X |-> [i \in 1..Len(cases) |->
                  [c \in 1..Len(xnVariables) |-> ParseFloat(At(xnVariables[c].data, cases[i]))]
                  \o [c \in 1..Len(encodings) |-> At(encodings[c].data, cases[i])]],
         variableNames |-> [Y |-> yVariable.name,
                            X |-> allXNames,
                            categorical |-> [c \in 1..Len(xcVariables) |-> xcVariables[c].name]],
         n |-> Len(Y),
         k |-> Len(allXNames),
         numericCount |-> Len(xnVariables),
         categoricalCount |-> Len(xcVariables)]

\* prepareFromBuckets: null after the status message when Y or every X is missing
prepareFromBuckets(variables, bucketAssignments) ==
    IF bucketAssignments.y = 0
       \/ (Len(bucketAssignments.xn) = 0 /\ Len(bucketAssignments.xc) = 0)
    THEN Err("null")
    ELSE Ok(preparedData(variables[bucketAssignments.y],
                         [c \in 1..Len(bucketAssignments.xn) |-> variables[bucketAssignments.xn[c]]],
                         [c \in 1..Len(bucketAssignments.xc) |-> variables[bucketAssignments.xc[c]]]))

\* prepareFromDropdowns: null after the status message when validation fails
prepareFromDropdowns(variables, roles) ==
    IF ~validateSelection(variables, roles) THEN Err("null")
    ELSE LET selected == getSelectedVariables(variables, roles)
         IN  Ok(preparedData(variables[selected.Y],
                             [c \in 1..Len(selected.X) |-> variables[selected.X[c]]],
                             [c \in 1..Len(selected.categorical) |->
                                 variables[selected.categorical[c]]]))

-----------------------------------------------------------------------------
(* Loaded ranges with categorical columns *)

MaxLevels == 2    \* text levels of a categorical column

\* what a cell of a categorical column holds: a text level, the number 1, or nothing
CatCells == { Text(l) : l \in 1..MaxLevels } \cup {Num(1), EmptyStr}

\* the data rows of a loaded range: a response, a numeric predictor and two
\* categorical columns, the response with at most one empty cell
ResponseColumns(N) ==
    { WithHole(NumericColumn("linear", N), 0, <<h, 0, EmptyStr>>) : h \in {0, 1, N} }

DataColumns ==
    UNION { { <<y, NumericColumn("alternating", N), c1,
                [r \in 1..N |-> Text(1 + (r % 2))]>> :
              y \in ResponseColumns(N), c1 \in [1..N -> CatCells] }
            : N \in 1..MaxRows }

\* the roles given to the four columns
RoleChoices ==
    { <<"Y", "Xn", "Xc", "Xc">>, <<"Y", "Xn", "CAT", "IGNORE">>,
      <<"Y", "", "Xc", "Xc">>, <<"", "X", "Xc", "">> }

\* the bucket assignment that gives the columns the same roles
BucketsOf(variables, roles) ==
    LET selected == getSelectedVariables(variables, roles)
    IN  [y |-> selected.Y, xn |-> selected.X, xc |-> selected.categorical]

PrepInit ==
    /\ input \in { [variables |-> populateVariablesTable(cols), roles |-> roles,
                    bucketAssignments |-> BucketsOf(populateVariablesTable(cols), roles)] :
                   cols \in DataColumns, roles \in RoleChoices }
    /\ residue = FALSE
    /\ op = "idle"
    /\ ret = NoRet
    /\ PageLoad

PrepareFromBuckets ==
    /\ op = "idle"
    /\ op' = "prepareFromBuckets"
    /\ ret' = prepareFromBuckets(input.variables, input.bucketAssignments)
    /\ UNCHANGED <<input, residue, page>>

PrepareFromDropdowns ==
    /\ op = "idle"
    /\ op' = "prepareFromDropdowns"
    /\ ret' = prepareFromDropdowns(input.variables, input.roles)
    /\ UNCHANGED <<input, residue, page>>

PrepNext == PrepareFromBuckets \/ PrepareFromDropdowns

SpecPrep == PrepInit /\ [][PrepNext]_vars

-----------------------------------------------------------------------------
(* Direct calls of removeMissingValues *)

\* what a cell handed to removeMissingValues holds when it is no finite number
MissingKinds == {Null, Undef, EmptyStr, NaN, Text(1)}

RawHoles(N, p) == {<<0, 0, Zero>>} \cup ((1..N) \X (0..p) \X MissingKinds)

RawSheets ==
    UNION { UNION { { Sheet(N, qs, h) : qs \in PatternLists(p), h \in RawHoles(N, p) }
                    : p \in 1..MaxPred }
            : N \in 1..MaxRows }

\* the cells range.values delivers: numbers and texts ('' for an empty cell)
IsExcelRange(cells) == \A i \in 1..Len(cells) : cells[i][1] \in {"num", "str"}

CleanInit ==
    /\ input \in { [y |-> s.y, X |-> s.X] : s \in RawSheets }
    /\ residue = FALSE
    /\ op = "idle"
    /\ ret = NoRet
    /\ PageLoad

\* removeMissingValues(y, X) on the columns as they are
RemoveMissing ==
    /\ op = "idle"
    /\ op' = "removeMissingValues"
    /\ ret' = Ok(removeMissingValues(input.y, input.X))
    /\ UNCHANGED <<input, residue, page>>

\* removeMissingValues on the columns as readRange delivers them
ReadThenRemove ==
    /\ op = "idle"
    /\ IsExcelRange(input.y)
    /\ \A c \in 1..Len(input.X) : IsExcelRange(input.X[c])
    /\ op' = "readRange"
    /\ ret' = Ok(removeMissingValues(readRangeClean(input.y),
                                     [c \in 1..Len(input.X) |-> readRangeClean(input.X[c])]))
    /\ UNCHANGED <<input, residue, page>>

CleanNext == RemoveMissing \/ ReadThenRemove

SpecClean == CleanInit /\ [][CleanNext]_vars

-----------------------------------------------------------------------------
(* ExcelIntegration.runRegression  (src/js/excel-integration.js) *)

True  == <<"bool", 1, 0>>
False == <<"bool", 0, 0>>

\* step 2 of runRegression: the columns of xn, then the columns of xc as read
runRegression_X(modelSpec, data) ==
    [c \in 1..Len(modelSpec.xn) |-> data[modelSpec.xn[c]]]
    \o [c \in 1..Len(modelSpec.xc) |-> data[modelSpec.xc[c]]]

\* modelSpec.intercept === 1 || modelSpec.intercept === true
runRegression_includeIntercept(modelSpec) ==
    modelSpec.intercept = Num(1) \/ modelSpec.intercept = True

\* steps 4 and 5 of runRegression: the names and the raw data join the
\* record calculate returned; what calculate throws is thrown on
runRegression_results(modelSpec, data, xVarNames, includeIntercept, results) ==
    IF ~results.ok THEN results
    ELSE Ok([yVarName    |-> modelSpec.y,
             xVarNames   |-> xVarNames,
             allVarNames |-> IF includeIntercept
                             THEN <<<<"Intercept">>>> \o xVarNames
                             ELSE xVarNames,
             rawData     |-> data] @@ results.val)

\* a preparation that takes every listed name to have a range
FirstMissingRange_unchecked(names, ranges, i) == 0

RECURSIVE FirstMissingRange(_, _, _)
\* the first name of the list from position i on without a range, 0 if none
FirstMissingRange(names, ranges, i) ==
    IF i > Len(names) THEN 0
    ELSE IF ranges[names[i]] = 0 THEN names[i]
    ELSE FirstMissingRange(names, ranges, i + 1)

\* step 1 of runRegression up to the read: the names whose ranges are to be
\* read (the keys of allRanges in insertion order), or the error thrown
runRegression_allRanges(modelSpec) ==
    IF modelSpec.y = 0 \/ modelSpec.ranges[modelSpec.y] = 0
    THEN Err("Y variable not specified or missing range")
    ELSE IF FirstMissingRange(modelSpec.xn, modelSpec.ranges, 1) # 0
    THEN Err("Numeric variable missing range")
    ELSE IF FirstMissingRange(modelSpec.xc, modelSpec.ranges, 1) # 0
    THEN Err("Categorical variable missing range")
    ELSE Ok(<<modelSpec.y>> \o modelSpec.xn \o modelSpec.xc)

\* runRegression(modelSpec) on a worksheet whose range a holds sheet[a]; a
\* name without a range has ranges[name] = 0, an unspecified response is 0
runRegression(modelSpec, sheet) ==
    IF ~runRegression_allRanges(modelSpec).ok THEN runRegression_allRanges(modelSpec)
    ELSE LET data == [name \in Range(runRegression_allRanges(modelSpec).val) |->
                        IF modelSpec.ranges[name] = 0 THEN <<>>
                        ELSE readRangeClean(sheet[modelSpec.ranges[name]])]
             xVarNames == [c \in 1..Len(modelSpec.xn) |-> <<modelSpec.xn[c]>>]
                          \o [c \in 1..Len(modelSpec.xc) |-> <<modelSpec.xc[c], "Cat">>]
             includeIntercept == runRegression_includeIntercept(modelSpec)
         IN  runRegression_results(modelSpec, data, xVarNames, includeIntercept,
                 calculate(data[modelSpec.y], runRegression_X(modelSpec, data),
                           includeIntercept))

\* the reads and the fit runRegression has asked for, in order: one readRange
\* per key of allRanges (readMultipleRanges), then calculate
runRegression_calls(modelSpec) ==
    IF ~runRegression_allRanges(modelSpec).ok THEN <<>>
    ELSE [i \in 1..Len(runRegression_allRanges(modelSpec).val) |-> "readRange"]
         \o <<"calculate">>

\* the model specifications: the response in column 1 (or unspecified),
\* predictors from columns 2 (numeric), 3 and 4 (categorical), and at most one
\* name without a range
Predictors == { <<<<2>>, <<3>>>>, <<<<2>>, <<3, 4>>>>, <<<<2>>, <<>>>>, <<<<>>, <<3>>>> }

ModelSpec(xs, b, gone) ==
    [y |-> 1, xn |-> xs[1], xc |-> xs[2], intercept |-> b,
     ranges |-> [name \in 1..4 |-> IF name = gone THEN 0 ELSE name]]

ModelSpecs ==
    { ModelSpec(xs, b, 0) : xs \in Predictors, b \in {Num(1), True, Zero} }
    \cup { ModelSpec(<<<<2>>, <<3, 4>>>>, True, gone) : gone \in 1..4 }
    \cup { [ModelSpec(<<<<2>>, <<3>>>>, True, 0) EXCEPT !.y = 0] }

\* the worksheets of a run: a full response, and a first categorical column
\* of at most two runs of equal cells
RunSheets ==
    { cols \in DataColumns :
        /\ \A r \in 1..Len(cols[1]) : IsNum(cols[1][r])
        /\ \E j \in 0..Len(cols[3]) :
              /\ \A r \in 1..j : cols[3][r] = cols[3][1]
              /\ \A r \in (j + 1)..Len(cols[3]) : cols[3][r] = cols[3][Len(cols[3])] }

RunInit ==
    /\ input \in { [modelSpec |-> m, sheet |-> cols] : m \in ModelSpecs, cols \in RunSheets }
    /\ residue \in BOOLEAN
    /\ op = "idle"
    /\ ret = NoRet
    /\ PageLoad

RunRegression ==
    /\ op = "idle"
    /\ op' = "runRegression"
    /\ ret' = runRegression(input.modelSpec, input.sheet)
    /\ calls' = runRegression_calls(input.modelSpec)
    /\ UNCHANGED <<input, residue, sessionStorage, regressionResults, regressionData, further>>

RunNext == RunRegression

SpecRun == RunInit /\ [][RunNext]_vars

-----------------------------------------------------------------------------
(* The three multiplication routines on operands of every small shape *)

MaxDim == 3       \* rows and columns of an operand

Matrix(rows, cols, seed) == [i \in 1..rows |-> [j \in 1..cols |-> Num(i + j + seed)]]

MulInit ==
    /\ input \in { [A |-> Matrix(ra, ca, 0), B |-> Matrix(rb, cb, seed),
                    vector |-> [i \in 1..rb |-> Num(i + seed)]] :
                   ra \in 1..MaxDim, ca \in 1..MaxDim, rb \in 1..MaxDim,
                   cb \in 1..MaxDim, seed \in 0..1 }
    /\ residue = FALSE
    /\ op = "idle"
    /\ ret = NoRet
    /\ PageLoad

\* calculator.matrixMultiply(A, B)
CalculatorMultiply ==
    /\ op = "idle"
    /\ op' = "RegressionCalculator.matrixMultiply"
    /\ ret' = RC_matrixMultiply(input.A, input.B)
    /\ UNCHANGED <<input, residue, page>>

\* calculator.vectorMatrixMultiply(A, vector)
VectorMultiply ==
    /\ op = "idle"
    /\ op' = "vectorMatrixMultiply"
    /\ ret' = Ok(vectorMatrixMultiply(input.A, input.vector))
    /\ UNCHANGED <<input, residue, page>>

\* the free function matrixMultiply(A, B)
FreeMultiply ==
    /\ op = "idle"
    /\ op' = "matrixMultiply"
    /\ ret' = matrixMultiply(input.A, input.B)
    /\ UNCHANGED <<input, residue, page>>

MulNext == CalculatorMultiply \/ VectorMultiply \/ FreeMultiply

SpecMul == MulInit /\ [][MulNext]_vars

-----------------------------------------------------------------------------
(* Keeping the results for the results page  (src/js/excel-integration.js) *)

\* the fields of a result of calculate that are arrays of numbers, and those
\* that are numbers computed in floating point
ArrayFields == {"coefficients", "standardErrors", "tStats", "pValues", "confIntLower",
                "confIntUpper", "vif", "fittedValues", "residuals"}
NumberFields == {"rSquared", "adjRSquared", "fStat", "fPValue", "rmse", "aic", "bic",
                 "SSR", "SSE", "SST", "MSR", "MSE"}

\* the JSON text of a number: a numeric literal for a finite number (0 for
\* -0), the literal null for NaN and the infinities; undefined and null in an
\* array are written null as well
JSON_stringifyNumber(v) ==
    IF IsUnk(v) THEN <<"json-unk", 0, 0>>
    ELSE IF IsNum(v) /\ IsFinite(v)
         THEN IF IsZero(v) THEN <<"json-num", 0, 1>> ELSE <<"json-num", v[2], v[3]>>
         ELSE <<"json-null", 0, 0>>

\* the value a literal of a JSON text denotes
JSON_parseLiteral(t) ==
    CASE t[1] = "json-unk"  -> Unk
      [] t[1] = "json-num"  -> <<"num", t[2], t[3]>>
      [] t[1] = "json-null" -> Null

\* JSON.stringify of a result of calculate, and JSON.parse of such a text
JSON_stringify(results) ==
    [f \in DOMAIN results |->
        IF f \in ArrayFields
        THEN [i \in 1..Len(results[f]) |-> JSON_stringifyNumber(results[f][i])]
        ELSE IF f \in NumberFields THEN JSON_stringifyNumber(results[f])
        ELSE results[f]]

JSON_parse(text) ==
    [f \in DOMAIN text |->
        IF f \in ArrayFields
        THEN [i \in 1..Len(text[f]) |-> JSON_parseLiteral(text[f][i])]
        ELSE IF f \in NumberFields THEN JSON_parseLiteral(text[f])
        ELSE text[f]]

\* storeResults(results), results being what calculate returns for the worksheet
StoreResults ==
    /\ \E results \in { calculate(readRangeClean(input.y),
                                  [c \in 1..Len(input.X) |-> readRangeClean(input.X[c])],
                                  input.includeIntercept) } :
          /\ results.ok
          /\ sessionStorage' = [sessionStorage EXCEPT
                                   !.regressionResults = Held(JSON_stringify(results.val))]
    /\ op' = "storeResults"
    /\ ret' = Ok(Undef)
    /\ UNCHANGED <<input, residue, regressionResults, regressionData, calls, further>>

\* loadResults()
LoadResults ==
    /\ op' = "loadResults"
    /\ ret' = IF IsHeld(sessionStorage.regressionResults)
              THEN Ok(JSON_parse(sessionStorage.regressionResults[1])) ELSE Ok(Null)
    /\ UNCHANGED <<input, residue, page>>

\* formatPValue(pValue)
formatPValue(pValue) ==
    IF pValue = Null \/ pValue = Undef \/ GlobalIsNaN(pValue) THEN "---"
    ELSE IF IsUnk(pValue) THEN "a number"
    ELSE IF NLt(ToNumber(pValue), Mk(1, 1000)) THEN "< 0.001"
    ELSE "toFixed(4)"

\* getSignificanceStars(pValue): each < converts its operand to a number
getSignificanceStars(pValue) ==
    IF IsUnk(pValue) THEN "stars of a number"
    ELSE IF NLt(ToNumber(pValue), Mk(1, 1000)) THEN "***"
    ELSE IF NLt(ToNumber(pValue), Mk(1, 100)) THEN "**"
    ELSE IF NLt(ToNumber(pValue), Mk(5, 100)) THEN "*"
    ELSE IF NLt(ToNumber(pValue), Mk(1, 10)) THEN "."
    ELSE ""

\* displayFTest(results): the cell fPValue and the word in fTestResult
displayFTest(results) ==
    [fPValue |-> formatPValue(results.fPValue),
     significance |-> IF IsUnk(results.fPValue) THEN "either"
                      ELSE IF NLt(ToNumber(results.fPValue), Mk(5, 100)) THEN "significant"
                      ELSE "not significant"]

\* displayCoefficientsTable(results): the p-value cell of each coefficient
displayCoefficientsTable(results) ==
    [i \in 1..Len(results.coefficients) |->
        [text  |-> formatPValue(At(results.pValues, i)),
         stars |-> getSignificanceStars(At(results.pValues, i))]]

\* loadRegressionResults(): false when nothing is stored, otherwise the parsed
\* results are displayed
LoadRegressionResults ==
    /\ op' = "loadRegressionResults"
    /\ IF ~IsHeld(sessionStorage.regressionResults)
       THEN ret' = Ok(False) /\ UNCHANGED resultsPage
       ELSE LET results == JSON_parse(sessionStorage.regressionResults[1])
            IN  /\ ret' = Ok(True)
                /\ resultsPage' = Held([results |-> results,
                                        fTest   |-> displayFTest(results),
                                        table   |-> displayCoefficientsTable(results)])
    /\ UNCHANGED <<input, residue, sessionStorage, regressionResults, regressionData, calls,
                   regressionVariablesList, CONFIG, integration, requests, status, rangeRead>>

StoreNext == StoreResults \/ LoadResults \/ LoadRegressionResults

SpecStore == FitInit /\ [][StoreNext]_vars

-----------------------------------------------------------------------------
(* calculate, statement by statement  (src/js/excel-integration.js) *)

\* the columns calculate fits, rebuilt from the worksheet
CleanedData ==
    removeMissingValues(readRangeClean(input.y),
                        [c \in 1..Len(input.X) |-> readRangeClean(input.X[c])])
FitMatrix == DesignColumns(CleanedData.X, Len(CleanedData.y), input.includeIntercept)

\* the outcomes of the steps of calculate that are outside calculateVIF
MainCoefficients == calculateCoefficients(FitMatrix, CleanedData.y)
MainInverse ==
    invertMatrix(RC_matrixMultiply(RC_transpose(FitMatrix), FitMatrix).val)
MainGuard == InsufficientObservations(Len(CleanedData.y), Len(CleanedData.X))

\* the matrix routines calculateCoefficients calls, in order: the two
\* products with the inverse are reached only when invertMatrix returns
CallsOf_calculateCoefficients(X, y) ==
    <<"transpose", "matrixMultiply", "invertMatrix">>
    \o (IF calculateCoefficients(X, y).ok
        THEN <<"vectorMatrixMultiply", "vectorMatrixMultiply">> ELSE <<>>)

RECURSIVE CallsOf_calculateVIF(_, _, _)
\* the matrix routines calculateVIF calls for the design columns startIdx..upto
CallsOf_calculateVIF(X, startIdx, upto) ==
    IF upto < startIdx THEN <<>>
    ELSE LET others == SelectSeq([c \in 1..Len(X) |-> c],
                                 LAMBDA c : c # upto /\ c >= startIdx)
             otherX == [c \in 1..Len(others) |-> X[others[c]]]
         IN  CallsOf_calculateVIF(X, startIdx, upto - 1)
             \o (IF Len(otherX) = 0 THEN <<>>
                 ELSE CallsOf_calculateCoefficients(otherX,
                          removeMissingValues(X[upto], otherX).y))

\* an order of statements in which the observations are counted after the solve
RC_after_solveFirst(step) ==
    CASE step = "validate"     -> "clean"
      [] step = "clean"        -> "design"
      [] step = "design"       -> "coefficients"
      [] step = "coefficients" -> "check"
      [] step = "check"        -> "inverse"
      [] step = "inverse"      -> "vif"

\* the statement of calculate that follows a statement that has not thrown
RC_after(step) ==
    CASE step = "validate"     -> "clean"
      [] step = "clean"        -> "check"
      [] step = "check"        -> "design"
      [] step = "design"       -> "coefficients"
      [] step = "coefficients" -> "inverse"
      [] step = "inverse"      -> "vif"

\* a statement ends: with a throw, which ends the call, or by passing control on
Pass(step, outcome) ==
    IF outcome.ok
    THEN op' = RC_after(step) /\ ret' = ret
    ELSE op' = "calculate" /\ ret' = outcome

\* the call: logging, control at the validation
Enter ==
    /\ op = "idle"
    /\ op' = "validate"
    /\ UNCHANGED <<input, residue, ret, page>>

\* lines 531-536
Validate ==
    /\ op = "validate"
    /\ Pass("validate", IF Len(input.y) = 0 THEN Err("Y variable is empty")
                        ELSE IF Len(input.X) = 0 THEN Err("No X variables provided")
                        ELSE Ok(<<>>))
    /\ UNCHANGED <<input, residue, page>>

\* lines 539-545: removeMissingValues builds the clean columns
Clean ==
    /\ op = "clean"
    /\ Pass("clean", Ok(<<>>))
    /\ UNCHANGED <<input, residue, page>>

\* lines 547-549
Check ==
    /\ op = "check"
    /\ Pass("check", IF MainGuard THEN Err("Insufficient observations") ELSE Ok(<<>>))
    /\ UNCHANGED <<input, residue, page>>

\* lines 552-555
Design ==
    /\ op = "design"
    /\ Pass("design", Ok(<<>>))
    /\ UNCHANGED <<input, residue, page>>

\* line 558, and lines 561-588, which call no matrix routine
Coefficients ==
    /\ op = "coefficients"
    /\ Pass("coefficients", MainCoefficients)
    /\ calls' = calls \o CallsOf_calculateCoefficients(FitMatrix, CleanedData.y)
    /\ UNCHANGED <<input, residue, sessionStorage, regressionResults, regressionData, further>>

\* lines 590-591, and lines 592-602, which call no matrix routine
Inverse ==
    /\ op = "inverse"
    /\ Pass("inverse", MainInverse)
    /\ calls' = calls \o <<"transpose", "matrixMultiply", "invertMatrix">>
    /\ UNCHANGED <<input, residue, sessionStorage, regressionResults, regressionData, further>>

\* lines 604-643: calculateVIF, the information criteria and the return
VifAndReturn ==
    /\ op = "vif"
    /\ op' = "calculate"
    /\ ret' = calculate(readRangeClean(input.y),
                        [c \in 1..Len(input.X) |-> readRangeClean(input.X[c])],
                        input.includeIntercept)
    /\ calls' = calls \o CallsOf_calculateVIF(FitMatrix,
                              IF input.includeIntercept THEN 2 ELSE 1, Len(FitMatrix))
    /\ UNCHANGED <<input, residue, sessionStorage, regressionResults, regressionData, further>>

\* the worksheets with one or two predictor columns
StepInit ==
    /\ input \in { [y |-> s.y, X |-> s.X, includeIntercept |-> b] :
                   s \in { t \in Sheets : Len(t.X) <= 2 }, b \in BOOLEAN }
    /\ residue \in BOOLEAN
    /\ op = "idle"
    /\ ret = NoRet
    /\ PageLoad

StepNext ==
    \/ Enter \/ Validate \/ Clean \/ Check
    \/ Design \/ Coefficients \/ Inverse \/ VifAndReturn

SpecSteps == StepInit /\ [][StepNext]_vars

-----------------------------------------------------------------------------
(* The confidence bounds of calculate for a caller's significance level *)

MaxDf == 4      \* residual degrees of freedom of a fit

\* the significance levels a caller asks for: 0.10, 0.05, 0.01
AlphaLevels == {Mk(10, 100), Mk(5, 100), Mk(1, 100)}
CoefficientValues == {Num(-1), Zero, Num(2)}
StandardErrorValues == {Mk(1, 2), Num(3)}

\* a caller passes alpha after includeIntercept
IntervalInit ==
    /\ input \in [alpha : AlphaLevels, dfResidual : 1..MaxDf,
                  coefficients : [1..2 -> CoefficientValues],
                  standardErrors : [1..2 -> StandardErrorValues]]
    /\ residue \in BOOLEAN
    /\ op = "idle"
    /\ ret = NoRet
    /\ PageLoad

\* lines 599-602 of calculate: calculate(y, X, includeIntercept = true) has
\* no fourth parameter, so the caller's alpha is not read
ConfidenceBounds ==
    /\ op = "idle"
    /\ op' = "confidenceBounds"
    /\ ret' = Ok(RC_confInt(input.coefficients, input.standardErrors, input.dfResidual))
    /\ UNCHANGED <<input, residue, page>>

IntervalNext == ConfidenceBounds

SpecInterval == IntervalInit /\ [][IntervalNext]_vars

-----------------------------------------------------------------------------
(* tCriticalValue over the degrees of freedom  (src/js/excel-integration.js) *)

MaxTableDf == 125     \* degrees of freedom asked for, past the last key of the table

CriticalInit ==
    /\ input \in [alpha : AlphaLevels, df : 1..MaxTableDf]
    /\ residue = FALSE
    /\ op = "idle"
    /\ ret = NoRet
    /\ PageLoad

\* calculator.tCriticalValue(alpha, df)
CriticalValue ==
    /\ op = "idle"
    /\ op' = "tCriticalValue"
    /\ ret' = Ok(tCriticalValue(input.alpha, input.df))
    /\ UNCHANGED <<input, residue, page>>

CriticalNext == CriticalValue

SpecCritical == CriticalInit /\ [][CriticalNext]_vars

-----------------------------------------------------------------------------
(* The arrays a caller passes to the calculator  (src/js/excel-integration.js) *)

MaxCalls == 2     \* calls made on one calculator

\* transpose pushes onto its own result and row arrays only
transpose_after(matrix) == matrix

\* matrixMultiply pushes onto its own result and row arrays only
matrixMultiply_after(A, B) == [A |-> A, B |-> B]

\* an inversion that pivots on the rows of its argument
invertMatrix_after_inPlace(matrix) ==
    SwapRows(matrix, 1, FindPivot(matrix, 1, 2, 1))

\* invertMatrix swaps, scales and eliminates the rows of augmented, which are
\* arrays built by spreading the rows of the argument
invertMatrix_after(matrix) == matrix

\* removeMissingValues builds y and the columns of X anew by validIndices.map
removeMissingValues_after(y, X) == [y |-> y, X |-> X]

\* calculate hands y and X to removeMissingValues only; everything after works
\* on yClean, XClean and arrays made from them
calculate_after(y, X) == removeMissingValues_after(y, X)

\* square matrices: one whose first pivot is in the second row, one that is
\* singular
SquareMatrices ==
    { <<<<Num(1), Num(2)>>, <<Num(3), Num(4)>>>>,
      <<<<Num(1), Num(2)>>, <<Num(2), Num(4)>>>> }

\* worksheets with one predictor column and enough rows for a fit
PureSheets ==
    UNION { { Sheet(N, qs, h) : qs \in {<<"alternating">>, <<"cyclic">>}, h \in Holes(N, 1) }
            : N \in 3..MaxRows }

PureInit ==
    /\ input \in { [y |-> s.y, X |-> s.X, includeIntercept |-> b, matrix |-> m] :
                   s \in PureSheets, b \in BOOLEAN, m \in SquareMatrices }
    /\ residue \in BOOLEAN
    /\ op = "idle"
    /\ ret = NoRet
    /\ PageLoad

\* a call on the calculator: the routine is logged, the other page state stays
Called(routine) ==
    /\ Len(calls) < MaxCalls
    /\ calls' = Append(calls, routine)
    /\ op' = routine
    /\ UNCHANGED <<residue, sessionStorage, regressionResults, regressionData, further>>

\* calculator.transpose(matrix)
PureTranspose ==
    /\ Called("transpose")
    /\ ret' = Ok(RC_transpose(input.matrix))
    /\ input' = [input EXCEPT !.matrix = transpose_after(input.matrix)]

\* calculator.matrixMultiply(matrix, matrix)
PureMultiply ==
    /\ Called("matrixMultiply")
    /\ ret' = RC_matrixMultiply(input.matrix, input.matrix)
    /\ input' = [input EXCEPT !.matrix = matrixMultiply_after(input.matrix, input.matrix).A]

\* calculator.invertMatrix(matrix)
PureInvert ==
    /\ Called("invertMatrix")
    /\ ret' = invertMatrix(input.matrix)
    /\ input' = [input EXCEPT !.matrix = invertMatrix_after(input.matrix)]

\* calculator.calculate(y, X, includeIntercept) on the caller's arrays
PureCalculate ==
    /\ Called("calculate")
    /\ ret' = calculate(input.y, input.X, input.includeIntercept)
    /\ input' = [input EXCEPT !.y = calculate_after(input.y, input.X).y,
                              !.X = calculate_after(input.y, input.X).X]

PureNext == PureTranspose \/ PureMultiply \/ PureInvert \/ PureCalculate

SpecPure == PureInit /\ [][PureNext]_vars

-----------------------------------------------------------------------------
(* invertMatrix, one elimination step at a time  (src/js/excel-integration.js) *)

\* the entries of the small matrices: finite numbers and NaN (what a text cell
\* becomes in a product)
MatrixEntries == {Zero, Num(1), Num(2), Num(-3), NaN}

\* the rows of the matrices of order 3
MatrixRows ==
    { <<Num(1), Num(2), Zero>>, <<Zero, Num(1), Num(1)>>, <<Num(2), Num(4), Zero>>,
      <<Num(-3), Num(1), Num(2)>>, <<Zero, Zero, Num(1)>> }

\* every matrix of order 1 and 2 over the entries, and those of order 3 over
\* the rows
InvertibleCandidates ==
    [1..1 -> [1..1 -> MatrixEntries]] \cup [1..2 -> [1..2 -> MatrixEntries]]
        \cup [1..3 -> MatrixRows]

\* the locals of a running invertMatrix: augmented, i, maxRow (0 before the
\* pivot search of step i)
InvertLocals(augmented, i, maxRow) ==
    [ok |-> FALSE, err |-> "", val |-> <<augmented, i, maxRow>>]

InvertInit ==
    /\ input \in { [matrix |-> m] : m \in InvertibleCandidates }
    /\ residue = FALSE
    /\ op = "idle"
    /\ ret = NoRet
    /\ PageLoad

\* const n = matrix.length; const augmented = matrix.map(...)
InvertAugment ==
    /\ op = "idle"
    /\ op' = "augment"
    /\ ret' = InvertLocals(Augment(input.matrix), 1, 0)
    /\ UNCHANGED <<input, residue, page>>

\* the pivot search of step i
InvertFindPivot ==
    /\ op \in {"augment", "eliminate"}
    /\ ret.val[2] <= Len(ret.val[1])
    /\ op' = "pivot"
    /\ ret' = InvertLocals(ret.val[1], ret.val[2],
                           FindPivot(ret.val[1], ret.val[2], ret.val[2] + 1, ret.val[2]))
    /\ UNCHANGED <<input, residue, page>>

\* the rest of step i: the swap, the tolerance test, the scaling of the pivot
\* row and the elimination of the column
InvertEliminate ==
    /\ op = "pivot"
    /\ LET i     == ret.val[2]
           sw    == SwapRows(ret.val[1], i, ret.val[3])
           pivot == sw[i][i]
       IN  IF IsSingularPivot(pivot)
           THEN /\ op' = "invertMatrix"
                /\ ret' = Err("Matrix is singular or near-singular")
           ELSE /\ op' = "eliminate"
                /\ ret' = InvertLocals(EliminateColumn(ScaleRow(sw, i, pivot), i), i + 1, 0)
    /\ UNCHANGED <<input, residue, page>>

\* return augmented.map(row => row.slice(n))
InvertReturn ==
    /\ op \in {"augment", "eliminate"}
    /\ ret.val[2] > Len(ret.val[1])
    /\ op' = "invertMatrix"
    /\ ret' = Ok(RightHalf(ret.val[1]))
    /\ UNCHANGED <<input, residue, page>>

InvertNext == InvertAugment \/ InvertFindPivot \/ InvertEliminate \/ InvertReturn

SpecInvert == InvertInit /\ [][InvertNext]_vars

-----------------------------------------------------------------------------
(* readRange and readMultipleRanges as promises  (src/js/excel-integration.js) *)

MaxRanges == 2      \* ranges handed to readMultipleRanges

\* a range of the worksheet with its cells, or an address the sheet cannot load
RangeChoices ==
    { [valid |-> TRUE,  values |-> <<Num(1), EmptyStr>>],
      [valid |-> TRUE,  values |-> <<Text(1), Num(2)>>],
      [valid |-> TRUE,  values |-> <<Num(3), Num(4)>>],
      [valid |-> FALSE, values |-> <<>>] }

ReadInit ==
    /\ input \in { [ranges |-> r] : r \in UNION { [1..n -> RangeChoices] : n \in 1..MaxRanges } }
    /\ residue = FALSE
    /\ op = "idle"
    /\ ret = NoRet
    /\ PageLoad

\* readMultipleRanges has been called and has neither returned nor thrown
Reading == op = "readMultipleRanges" /\ ret = NoRet

\* readMultipleRanges(ranges) up to its loop
ReadMultipleRanges ==
    /\ op = "idle"
    /\ op' = "readMultipleRanges"
    /\ rangeRead' = [NotReading EXCEPT !.next = 1]
    /\ UNCHANGED <<input, residue, ret, sessionStorage, regressionResults, regressionData,
                   calls, regressionVariablesList, CONFIG, integration, requests, status,
                   resultsPage>>

\* this.readRange(ranges[varName]): the promise is made and its executor calls
\* Excel.run, whose own promise nothing waits for
ReadRangeCalled ==
    /\ Reading
    /\ rangeRead.promise = "none"
    /\ rangeRead.next <= Len(input.ranges)
    /\ rangeRead' = [rangeRead EXCEPT !.promise = "pending", !.run = "started"]
    /\ UNCHANGED <<input, residue, op, ret, sessionStorage, regressionResults, regressionData,
                   calls, regressionVariablesList, CONFIG, integration, requests, status,
                   resultsPage>>

\* Excel.run runs the batch callback: the values are loaded, cleaned and
\* resolved, or the error of context.sync() is caught and rejected
BatchCallback ==
    /\ rangeRead.run = "started"
    /\ LET range == input.ranges[rangeRead.next]
       IN  rangeRead' =
              IF range.valid
              THEN [rangeRead EXCEPT !.run = "ended", !.promise = "fulfilled",
                                     !.value = readRangeClean(range.values)]
              ELSE [rangeRead EXCEPT !.run = "ended", !.promise = "rejected"]
    /\ UNCHANGED <<input, residue, op, ret, sessionStorage, regressionResults, regressionData,
                   calls, regressionVariablesList, CONFIG, integration, requests, status,
                   resultsPage>>

\* Excel.run rejects without having run the batch callback: neither resolve
\* nor reject of readRange is called
ExcelRunRejects ==
    /\ rangeRead.run = "started"
    /\ rangeRead' = [rangeRead EXCEPT !.run = "rejected"]
    /\ UNCHANGED <<input, residue, op, ret, sessionStorage, regressionResults, regressionData,
                   calls, regressionVariablesList, CONFIG, integration, requests, status,
                   resultsPage>>

\* the await of readMultipleRanges goes on: the values are kept and the loop
\* proceeds, or the rejection is caught and an error thrown
AwaitResumes ==
    /\ Reading
    /\ rangeRead.promise \in {"fulfilled", "rejected"}
    /\ IF rangeRead.promise = "fulfilled"
       THEN /\ rangeRead' = [rangeRead EXCEPT !.promise = "none", !.run = "none",
                                              !.value = <<>>,
                                              !.next = @ + 1,
                                              !.data = Append(@, rangeRead.value)]
            /\ UNCHANGED ret
       ELSE /\ rangeRead' = [rangeRead EXCEPT !.promise = "none", !.run = "none"]
            /\ ret' = Err("Failed to read")
    /\ UNCHANGED <<input, residue, op, sessionStorage, regressionResults, regressionData,
                   calls, regressionVariablesList, CONFIG, integration, requests, status,
                   resultsPage>>

\* return data
ReadReturns ==
    /\ Reading
    /\ rangeRead.promise = "none"
    /\ rangeRead.next > Len(input.ranges)
    /\ ret' = Ok(rangeRead.data)
    /\ UNCHANGED <<input, residue, op, sessionStorage, regressionResults, regressionData,
                   calls, further>>

ReadNext ==
    \/ ReadMultipleRanges \/ ReadRangeCalled \/ BatchCallback \/ ExcelRunRejects
    \/ AwaitResumes \/ ReadReturns

SpecRead == ReadInit /\ [][ReadNext]_vars

\* the event loop runs every continuation that is ready, and Excel.run ends
\* one way or the other
SpecReadLive ==
    /\ SpecRead
    /\ WF_vars(ReadMultipleRanges) /\ WF_vars(ReadRangeCalled)
    /\ WF_vars(BatchCallback \/ ExcelRunRejects)
    /\ WF_vars(AwaitResumes) /\ WF_vars(ReadReturns)

-----------------------------------------------------------------------------
(* Status messages and their auto-hide timers  (src/unnamed/part_001) *)

MaxTimers == 3      \* timers of one element that are set and have not fired

\* the ids showStatus and hideStatus are called with; the last names no element
CalledIds == StatusIds \cup {"noSuchStatus"}

\* the messages of runCompleteRegression with their types
StatusMessages ==
    { [message |-> "Reading data from Excel...", type |-> "info"],
      [message |-> "Regression complete! Check Results tab.", type |-> "success"],
      [message |-> "Error: Please enter both X and Y ranges", type |-> "error"] }

StatusInit ==
    /\ input = [elementId |-> "", message |-> "", type |-> ""]
    /\ residue = FALSE
    /\ op = "idle"
    /\ ret = NoRet
    /\ PageLoad

\* showStatus(elementId, message, type) on the elements els with the timers
\* tm: the elements and timers after the call
showStatus(els, tm, elementId, message, type) ==
    IF elementId \notin StatusIds THEN [statusEls |-> els, timers |-> tm]
    ELSE [statusEls |-> [els EXCEPT ![elementId] =
                            [textContent |-> message,
                             className   |-> "status " \o type,
                             display     |-> "block"]],
          timers |-> IF type \in {"success", "info"}
                     THEN [tm EXCEPT ![elementId] = @ + 1]
                     ELSE tm]

\* a call of showStatus
ShowStatus ==
    /\ \E elementId \in CalledIds, shown \in StatusMessages :
          LET after == showStatus(statusEls, timers, elementId, shown.message, shown.type)
          IN  /\ input' = [elementId |-> elementId, message |-> shown.message,
                           type |-> shown.type]
              /\ \A id \in StatusIds : after.timers[id] <= MaxTimers
              /\ statusEls' = after.statusEls
              /\ timers' = after.timers
    /\ op' = "showStatus"
    /\ ret' = Ok(Undef)
    /\ UNCHANGED <<residue, sessionStorage, regressionResults, regressionData, calls,
                   regressionVariablesList, rest, CONFIG, integration, requests>>

\* hideStatus(elementId)
HideStatus ==
    /\ \E elementId \in CalledIds :
          /\ input' = [elementId |-> elementId, message |-> "", type |-> ""]
          /\ statusEls' = IF elementId \in StatusIds
                          THEN [statusEls EXCEPT ![elementId].display = "none"]
                          ELSE statusEls
    /\ op' = "hideStatus"
    /\ ret' = Ok(Undef)
    /\ UNCHANGED <<residue, sessionStorage, regressionResults, regressionData, calls,
                   regressionVariablesList, rest, CONFIG, integration, requests, timers>>

\* the callback of a timer of the element, 5000 ms after the showStatus that
\* set it
TimerCallback(elementId) ==
    /\ timers[elementId] > 0
    /\ timers' = [timers EXCEPT ![elementId] = @ - 1]
    /\ statusEls' = [statusEls EXCEPT ![elementId].display = "none"]
    /\ op' = "timer"
    /\ ret' = Ok(Undef)
    /\ UNCHANGED <<residue, sessionStorage, regressionResults, regressionData, calls,
                   regressionVariablesList, rest, CONFIG, integration, requests>>

TimerFires ==
    \E elementId \in StatusIds :
        /\ TimerCallback(elementId)
        /\ input' = [elementId |-> elementId, message |-> "", type |-> ""]

StatusNext == ShowStatus \/ HideStatus \/ TimerFires

SpecStatus == StatusInit /\ [][StatusNext]_vars

-----------------------------------------------------------------------------
(* RegressionDiagnosticsIntegration.computeDiagnostics  (src/js/regression-integration.js) *)

MaxRequests == 2      \* requests sent to the cloud function

\* what setRegressionData is given
DiagnosticsData ==
    { [x |-> <<<<Num(1)>>, <<Num(2)>>>>, y |-> <<Num(1), Num(3)>>, intercept |-> b] :
      b \in BOOLEAN }

\* JSON.stringify(this.regressionData), the body of the request
JSON_stringifyData(data) == <<"json", data>>

\* how a request ends: fetch rejects, or resolves with a response whose ok
\* flag is httpOk, whose body parses or not, and whose parsed body has the
\* fields ok and diagnostics
Reply(rejected, httpOk, parses, resultOk, diagnostics) ==
    [rejected |-> rejected, httpOk |-> httpOk, parses |-> parses,
     resultOk |-> resultOk, diagnostics |-> diagnostics]

Replies ==
    { Reply(TRUE, FALSE, FALSE, FALSE, ""),
      Reply(FALSE, FALSE, TRUE, FALSE, ""),
      Reply(FALSE, TRUE, FALSE, FALSE, ""),
      Reply(FALSE, TRUE, TRUE, FALSE, ""),
      Reply(FALSE, TRUE, TRUE, FALSE, "vif"),
      Reply(FALSE, TRUE, TRUE, TRUE, "vif"),
      Reply(FALSE, TRUE, TRUE, TRUE, "correlations") }

\* the reply makes the try block throw: fetch or response.json() rejects,
\* !response.ok, or !result.ok
ReplyFails(reply) ==
    reply.rejected \/ ~reply.httpOk \/ ~reply.parses \/ ~reply.resultOk

\* a continuation that stores result.diagnostics before it looks at result.ok
DiagnosticsAfter_storedFirst(diagnosticsResults, reply) ==
    IF reply.rejected \/ ~reply.httpOk \/ ~reply.parses THEN diagnosticsResults
    ELSE Held(reply.diagnostics)

\* this.diagnosticsResults after the statements that follow the await
DiagnosticsAfter(diagnosticsResults, reply) ==
    IF ReplyFails(reply) THEN diagnosticsResults ELSE Held(reply.diagnostics)

DiagInit ==
    /\ input = [event |-> "load", request |-> 0]
    /\ residue = FALSE
    /\ op = "idle"
    /\ ret = NoRet
    /\ PageGlobals
    /\ \E cloudFunctionUrl \in CloudFunctionUrls : IntegrationLoad(cloudFunctionUrl)

\* setRegressionData(xMatrix, yVector, includeIntercept)
SetRegressionData ==
    /\ \E data \in DiagnosticsData :
          integration' = [integration EXCEPT !.regressionData = Held(data)]
    /\ input' = [event |-> "setRegressionData", request |-> 0]
    /\ op' = "setRegressionData"
    /\ ret' = Ok(Undef)
    /\ UNCHANGED <<residue, sessionStorage, regressionResults, regressionData, calls,
                   regressionVariablesList, rest, CONFIG, requests, status>>

\* computeDiagnostics() up to its await: the two guards, then the request
ComputeDiagnostics ==
    /\ input' = [event |-> "call", request |-> 0]
    /\ IF ~IsHeld(integration.regressionData)
       THEN /\ op' = "computeDiagnostics"
            /\ ret' = Err("No regression data available. Call readDataFromExcel() first.")
            /\ UNCHANGED requests
       ELSE IF CONFIG.cloudFunctionUrl = "" \/ CONFIG.cloudFunctionUrl = PlaceholderUrl
       THEN /\ op' = "computeDiagnostics"
            /\ ret' = Err("Cloud function URL not configured")
            /\ UNCHANGED requests
       ELSE /\ Len(requests) < MaxRequests
            /\ op' = "fetch"
            /\ ret' = NoRet
            /\ requests' = Append(requests,
                              [url   |-> CONFIG.cloudFunctionUrl,
                               body  |-> JSON_stringifyData(integration.regressionData[1]),
                               reply |-> Unset])
    /\ UNCHANGED <<residue, sessionStorage, regressionResults, regressionData, calls,
                   regressionVariablesList, rest, CONFIG, integration, status>>

\* a request settles and the call that awaits it goes on to its end
DiagnosticsSettle ==
    /\ \E request \in 1..Len(requests), reply \in Replies :
          /\ ~IsHeld(requests[request].reply)
          /\ requests' = [requests EXCEPT ![request].reply = Held(reply)]
          /\ input' = [event |-> "reply", request |-> request]
          /\ integration' = [integration EXCEPT !.diagnosticsResults =
                                DiagnosticsAfter(integration.diagnosticsResults, reply)]
          /\ ret' = IF ReplyFails(reply) THEN Err("Failed to compute diagnostics")
                    ELSE Ok(DiagnosticsAfter(integration.diagnosticsResults, reply)[1])
    /\ op' = "computeDiagnostics"
    /\ UNCHANGED <<residue, sessionStorage, regressionResults, regressionData, calls,
                   regressionVariablesList, rest, CONFIG, status>>

DiagNext == SetRegressionData \/ ComputeDiagnostics \/ DiagnosticsSettle

SpecDiag == DiagInit /\ [][DiagNext]_vars

-----------------------------------------------------------------------------
(* The task pane's globals over several runs  (src/unnamed/part_001) *)

\* the worksheet of the session: a response column and one predictor column
CompleteInit ==
    /\ input \in { [y |-> s.y, X |-> s.X] : s \in PureSheets }
    /\ residue = FALSE
    /\ op = "idle"
    /\ ret = NoRet
    /\ PageLoad

\* what the user types as a range: nothing (0), or the first rows of the column
RangeRows == {0, Len(input.y) - 1, Len(input.y)}

\* range.values of the first rows of the predictor columns and of the response
RangeValues(xRows, yRows) ==
    [x |-> [r \in 1..xRows |-> [c \in 1..Len(input.X) |-> input.X[c][r]]],
     y |-> [r \in 1..yRows |-> <<input.y[r]>>]]

\* the status element after the messages of a run, the last of them of the
\* given type
SetupStatusAfter(messages, last, type) ==
    LET reading   == showStatus(statusEls, timers, "setupStatus",
                                "Reading data from Excel...", "info")
        computing == showStatus(reading.statusEls, reading.timers, "setupStatus",
                                "Computing regression...", "info")
    IN  IF messages = 1 THEN showStatus(statusEls, timers, "setupStatus", last, type)
        ELSE showStatus(computing.statusEls, computing.timers, "setupStatus", last, type)

\* runCompleteRegression(): the fields are read, empty ranges end the run;
\* otherwise the data are read and assigned to regressionData, then the fit is
\* computed and assigned to regressionResults; an error of computeOLS is
\* caught and shown
RunCompleteRegression ==
    /\ op' = "runCompleteRegression"
    /\ \E xRows \in RangeRows, yRows \in RangeRows, includeIntercept \in BOOLEAN :
          IF xRows = 0 \/ yRows = 0
          THEN /\ ret' = Err("Please enter both X and Y ranges")
               /\ UNCHANGED <<regressionData, regressionResults>>
               /\ \E after \in { SetupStatusAfter(1, "Please enter both X and Y ranges",
                                                   "error") } :
                     statusEls' = after.statusEls /\ timers' = after.timers
          ELSE \E data \in { readRegressionData(RangeValues(xRows, yRows).x,
                                                RangeValues(xRows, yRows).y) } :
                  \E results \in { computeOLS(data.X, data.Y, includeIntercept, Alpha) } :
                     /\ regressionData' = Held(data)
                     /\ IF results.ok
                        THEN regressionResults' = Held(results.val) /\ ret' = Ok(Undef)
                        ELSE UNCHANGED regressionResults /\ ret' = results
                     /\ \E after \in { IF results.ok
                                        THEN SetupStatusAfter(3,
                                                "Regression complete! Check Results tab.",
                                                "success")
                                        ELSE SetupStatusAfter(3, "Error: " \o results.err,
                                                              "error") } :
                           /\ after.timers["setupStatus"] <= MaxTimers
                           /\ statusEls' = after.statusEls
                           /\ timers' = after.timers
    /\ UNCHANGED <<input, residue, sessionStorage, calls,
                   regressionVariablesList, rest, CONFIG, integration, requests>>

\* a timer of the status element fires between two runs
CompleteTimer ==
    /\ TimerCallback("setupStatus")
    /\ UNCHANGED input

CompleteNext == RunCompleteRegression \/ CompleteTimer

SpecComplete == CompleteInit /\ [][CompleteNext]_vars

-----------------------------------------------------------------------------
(* The navigation menu and its regression context  (src/js/navigation.js) *)

\* the variables lists of the models of a session
VariableLists == { <<>>, <<"Y", "X1">>, <<"Y", "X2">>, <<"Y", "X1", "X2">> }

\* what a caller passes to setRegressionVariablesList: an array, the JSON text
\* of an array, a text that is no JSON, or something that is neither
ArgumentKinds == {"array", "json", "not json", "other"}

\* the links of the dropdown menu
Links == {"descriptive-stats.html", "correlation-analysis.html", "data-methods.html"}

\* JSON.stringify of an array of names
JSON_stringifyNames(list) == <<"json", list>>

NavInit ==
    /\ input = [kind |-> "none", list |-> <<>>, href |-> ""]
    /\ residue = FALSE
    /\ op = "idle"
    /\ ret = NoRet
    /\ PageLoad

\* setRegressionVariablesList(variablesArray): a string is parsed and, when
\* the parse throws, the error is logged and the list stays; an array is
\* assigned; anything else is ignored
SetRegressionVariablesList ==
    /\ \E kind \in ArgumentKinds, list \in VariableLists :
          /\ input' = [kind |-> kind, list |-> list, href |-> ""]
          /\ regressionVariablesList' =
                IF kind \in {"array", "json"} THEN list ELSE regressionVariablesList
    /\ op' = "setRegressionVariablesList"
    /\ ret' = Ok(Undef)
    /\ UNCHANGED <<residue, sessionStorage, regressionResults, regressionData, calls,
                   rest, CONFIG, integration, requests, status>>

\* the click handler of a dropdown link
ClickLink ==
    /\ \E href \in Links :
          /\ input' = [kind |-> "none", list |-> <<>>, href |-> href]
          /\ sessionStorage' =
                IF /\ href \in {"descriptive-stats.html", "correlation-analysis.html"}
                   /\ Len(regressionVariablesList) > 0
                THEN [sessionStorage EXCEPT
                        !.regressionModelVariables =
                            Held(JSON_stringifyNames(regressionVariablesList)),
                        !.loadFromRegression = Held("true")]
                ELSE sessionStorage
    /\ op' = "click"
    /\ ret' = Ok(Undef)
    /\ UNCHANGED <<residue, regressionResults, regressionData, calls, further>>

NavNext == SetRegressionVariablesList \/ ClickLink

SpecNav == NavInit /\ [][NavNext]_vars

-----------------------------------------------------------------------------
(* Properties of the fits *)

\* the predictor columns of the worksheet, and the columns of the design
\* matrix fitted to it (one more when the intercept is requested)
PredictorCount == Len(input.X)
DesignWidth == PredictorCount + (IF input.includeIntercept THEN 1 ELSE 0)

\* the rows of the worksheet none of whose cells is empty
RowsKept ==
    Cardinality({ r \in 1..Len(input.y) :
                    /\ input.y[r] # EmptyStr
                    /\ \A c \in 1..Len(input.X) : input.X[c][r] # EmptyStr })

\* the rows of the worksheet all of whose cells hold a number
NumericRows ==
    Cardinality({ r \in 1..Len(input.y) :
                    /\ IsNum(input.y[r])
                    /\ \A c \in 1..Len(input.X) : IsNum(input.X[c][r]) })

Returned(o) == op = o /\ ret.ok

DfModelOf == IF op = "calculate" THEN ret.val.dfRegression ELSE ret.val.k - 1
DfResidualOf == IF op = "calculate" THEN ret.val.dfResidual ELSE ret.val.df

\* C2 as stated: every fit calculate or computeOLS returns has k - 1 model
\* degrees of freedom with the intercept and k without, and n - k residual
\* degrees of freedom, k being the number of design-matrix columns; both are at
\* least 1, a fit where either would be smaller raising an error instead.
C2_DegreesOfFreedom ==
    (Returned("calculate") \/ Returned("computeOLS")) =>
        /\ DfModelOf = DesignWidth - (IF input.includeIntercept THEN 1 ELSE 0)
        /\ DfResidualOf = ret.val.n - DesignWidth
        /\ DfModelOf >= 1
        /\ DfResidualOf >= 1

\* two predictor columns of the worksheet hold the same numbers
DuplicatePair(c, d) ==
    /\ c # d
    /\ input.X[c] = input.X[d]
    /\ \A r \in 1..Len(input.y) : IsNum(input.X[c][r])

\* the variance inflation factor reported for predictor c is infinite or NaN
VifFlagged(c) ==
    LET i == IF input.includeIntercept THEN c + 1 ELSE c
    IN  /\ "vif" \in DOMAIN ret.val
        /\ i <= Len(ret.val.vif)
        /\ ret.val.vif[i] \in {NaN, PInf}

\* C3 as stated: with two identical columns in the design matrix, calculate and
\* computeOLS either raise the singular-matrix error or mark the variance
\* inflation factor of the affected columns as infinite or NaN (a fit refused
\* for want of rows aside); no ordinary
\* finite result comes back without one of those signals.
C3_CollinearitySignalled ==
    \A c, d \in 1..PredictorCount :
        (op \in {"calculate", "computeOLS"} /\ DuplicatePair(c, d) /\ NumericRows = Len(input.y)) =>
            \/ ~ret.ok /\ ret.err = "Matrix is singular or near-singular"
            \/ ret.ok /\ VifFlagged(c) /\ VifFlagged(d)
            \/ ~ret.ok /\ ret.err = "Insufficient observations"

\* C5 as stated: the n of the result computeOLS returns for the data
\* readRegressionData delivers is the number of rows all of whose cells,
\* response and predictors, hold a number.
C5_CountsNumericRows ==
    Returned("computeOLS") => ret.val.n = NumericRows

\* the field names the output contract lists
ContractFields ==
    {"coefficients", "standardErrors", "tStats", "pValues", "confIntLower",
     "confIntUpper", "vif", "fittedValues", "residuals", "rSquared",
     "adjRSquared", "fStat", "fPValue", "rmse", "aic", "bic", "n", "k",
     "dfModel", "dfResidual", "SSR", "SSE", "TSS", "includeIntercept"}

\* the field names of the two records
CalculateFields ==
    (ContractFields \ {"dfModel", "TSS"}) \cup {"dfRegression", "SST", "MSR", "MSE"}
ComputeOLSFields ==
    {"coefficients", "std_errors", "t_values", "p_values", "CI_lower",
     "CI_upper", "R2", "R2_adj", "RMSE", "MSE", "F_stat", "F_pvalue", "AIC",
     "BIC", "TSS", "SSR", "SSE", "n", "k", "p", "df", "includeIntercept",
     "alpha", "residuals", "Y_fit"}

\* C9 as stated: the record calculate returns, and the record computeOLS
\* returns, has every field the output contract lists.
C9_ContractFields ==
    (Returned("calculate") \/ Returned("computeOLS")) =>
        ContractFields \subseteq DOMAIN ret.val

\* C9 amended: the record calculate returns has the contract's fields with
\* dfRegression for dfModel and SST for TSS (and MSR and MSE besides); the
\* record computeOLS returns has its own field names and neither vif, dfModel
\* nor dfResidual.
C9_ActualFields ==
    /\ Returned("calculate") => DOMAIN ret.val = CalculateFields
    /\ Returned("computeOLS") => DOMAIN ret.val = ComputeOLSFields

\* calculate returned a record
C9_Witness ==
    /\ Returned("calculate")
    /\ {"dfRegression", "SST"} \subseteq DOMAIN ret.val
    /\ Len(ret.val.coefficients) > 0

\* C10 as stated: in every result calculate returns, the coefficient vector is
\* as long as the result's k field says, and the standard errors, t statistics,
\* p-values and both confidence bounds have that length too.
C10_LengthsMatchK ==
    Returned("calculate") =>
        \A f \in {"coefficients", "standardErrors", "tStats", "pValues",
                  "confIntLower", "confIntUpper"} :
            Len(ret.val[f]) = ret.val.k

-----------------------------------------------------------------------------
(* Properties of the data preparation *)

\* the columns given a categorical role, and the data of column v
CategoricalColumns == { v \in 1..Len(input.roles) : input.roles[v] \in {"Xc", "CAT"} }
NumericColumns == { v \in 1..Len(input.roles) : input.roles[v] \in {"Xn", "X"} }
ResponseColumn == CHOOSE v \in 1..Len(input.roles) : input.roles[v] = "Y"
ColumnData(v) == input.variables[v].data

\* the distinct values of column v, the row each occurs in first, and the
\* value met first
Levels(v) == { ColumnData(v)[r] : r \in 1..Len(ColumnData(v)) } \ {EmptyStr}
FirstRow(v, L) ==
    CHOOSE r \in 1..Len(ColumnData(v)) :
        ColumnData(v)[r] = L /\ \A q \in 1..(r - 1) : ColumnData(v)[q] # L
ReferenceLevel(v) ==
    CHOOSE L \in Levels(v) : \A M \in Levels(v) : FirstRow(v, L) <= FirstRow(v, M)

\* the rows with a number in the response and in every numeric predictor and a
\* value in every categorical predictor, in worksheet order
RetainedRows ==
    SelectSeq([r \in 1..Len(ColumnData(ResponseColumn)) |-> r],
              LAMBDA r : /\ IsNum(ColumnData(ResponseColumn)[r])
                         /\ \A v \in NumericColumns : IsNum(ColumnData(v)[r])
                         /\ \A v \in CategoricalColumns : ColumnData(v)[r] # EmptyStr)

\* the columns of the prepared X that are dummies of column v, and the level
\* a dummy column stands for
DummyColumns(v) ==
    { c \in 1..Len(ret.val.variableNames.X) :
        /\ Len(ret.val.variableNames.X[c]) = 2
        /\ ret.val.variableNames.X[c][1] = v }
LevelOf(c) == ret.val.variableNames.X[c][2]

Prepared == op \in {"prepareFromBuckets", "prepareFromDropdowns"} /\ ret.ok

\* C6: in the data prepareFromBuckets and prepareFromDropdowns return, a
\* categorical variable with d >= 1 distinct non-missing values has exactly
\* d - 1 dummy columns (none when no value is present), one per distinct value
\* other than the one met first, in order of first occurrence; in every
\* retained row the dummy of level L is 1 if the row's value is L and 0
\* otherwise, so that at most one dummy of the variable is 1 in a row and all
\* are 0 exactly in the rows of the reference level.
C6_DummyCoding ==
    Prepared =>
        /\ Len(ret.val.X) = Len(RetainedRows)
        /\ \A v \in CategoricalColumns :
             LET cols == DummyColumns(v)
                 d    == Cardinality(Levels(v))
             IN  /\ Cardinality(cols) = IF d = 0 THEN 0 ELSE d - 1
                 /\ d > 0 => { LevelOf(c) : c \in cols } = Levels(v) \ {ReferenceLevel(v)}
                 /\ \A c1, c2 \in cols :
                       c1 < c2 => FirstRow(v, LevelOf(c1)) < FirstRow(v, LevelOf(c2))
                 /\ \A i \in 1..Len(ret.val.X) :
                       LET value == ColumnData(v)[RetainedRows[i]]
                           ones  == { c \in cols : ret.val.X[i][c] = Num(1) }
                       IN  /\ \A c \in cols :
                                ret.val.X[i][c] = IF value = LevelOf(c) THEN Num(1) ELSE Zero
                           /\ Cardinality(ones) <= 1
                           /\ ones = {} <=> value = ReferenceLevel(v)

\* prepareFromBuckets returned the data of a column with three levels, with a
\* row dropped, a row of the reference level and a row of another level
C6_Witness ==
    /\ op = "prepareFromBuckets"
    /\ ret.ok
    /\ Len(ret.val.X) < Len(ColumnData(ResponseColumn))
    /\ \E v \in CategoricalColumns :
          /\ Cardinality(Levels(v)) = 3
          /\ Cardinality(DummyColumns(v)) = 2
          /\ \E i, j \in 1..Len(ret.val.X) :
                /\ \A c \in DummyColumns(v) : ret.val.X[i][c] = Zero
                /\ \E c \in DummyColumns(v) : ret.val.X[j][c] = Num(1)

-----------------------------------------------------------------------------
(* Properties of removeMissingValues, runRegression and the multiplications *)

\* a value that is present and is a number
IsNumericValue(v) == v[1] \in {"num", "unk"} /\ v # NaN

\* the rows of the columns handed in whose values are all numeric, in order
FullyNumericRows ==
    SelectSeq([r \in 1..Len(input.y) |-> r],
              LAMBDA r : /\ IsNumericValue(input.y[r])
                         /\ \A c \in 1..Len(input.X) : IsNumericValue(input.X[c][r]))

\* C4 as stated: removeMissingValues keeps exactly the rows (the same index in
\* y and in every X column) whose values are all non-missing and numeric, text
\* cells delivered by readRange included among the values that drop a row, and
\* keeps them in their order.
C4_KeepsNumericRows ==
    op \in {"removeMissingValues", "readRange"} =>
        /\ ret.val.y = [i \in 1..Len(FullyNumericRows) |-> input.y[FullyNumericRows[i]]]
        /\ ret.val.X = [c \in 1..Len(input.X) |->
                          [i \in 1..Len(FullyNumericRows) |-> input.X[c][FullyNumericRows[i]]]]

\* the columns runRegression hands to the estimator, as the estimator lays
\* them out for the fit
FittedMatrix ==
    LET modelSpec == input.modelSpec
        data  == [name \in DOMAIN modelSpec.ranges |->
                    readRangeClean(input.sheet[modelSpec.ranges[name]])]
        clean == removeMissingValues(data[modelSpec.y], runRegression_X(modelSpec, data))
    IN  DesignColumns(clean.X, Len(clean.y), runRegression_includeIntercept(modelSpec))

\* the run got as far as fitting
FitReached ==
    op = "runRegression" /\ (ret.ok \/ ret.err = "Matrix is singular or near-singular")

\* the distinct values of the worksheet column a name stands for
SheetLevels(name) ==
    { input.sheet[name][r] : r \in 1..Len(input.sheet[name]) } \ {EmptyStr}

RECURSIVE DummyCount(_, _)
\* the dummy columns the first i categorical predictors call for
DummyCount(xc, i) ==
    IF i = 0 THEN 0
    ELSE DummyCount(xc, i - 1)
         + (IF SheetLevels(xc[i]) = {} THEN 0 ELSE Cardinality(SheetLevels(xc[i])) - 1)

\* C7 as stated: the matrix runRegression has fitted is the column of ones (if
\* the intercept is requested), one column per numeric predictor, and for
\* every categorical predictor one 0/1 dummy column per level other than the
\* reference level; no categorical predictor is in it as one raw column.
C7_DummyCodedDesign ==
    FitReached =>
        LET modelSpec == input.modelSpec
            first == (IF runRegression_includeIntercept(modelSpec) THEN 1 ELSE 0)
                     + Len(modelSpec.xn)
        IN  /\ Len(FittedMatrix) = first + DummyCount(modelSpec.xc, Len(modelSpec.xc))
            /\ \A c \in (first + 1)..Len(FittedMatrix) :
                  \A r \in 1..Len(FittedMatrix[c]) : FittedMatrix[c][r] \in {Zero, Num(1)}

\* the inner dimensions of the operands of the call differ
InnerMismatch ==
    \/ /\ op \in {"RegressionCalculator.matrixMultiply", "matrixMultiply"}
       /\ Len(input.A[1]) # Len(input.B)
    \/ /\ op = "vectorMatrixMultiply"
       /\ Len(input.A[1]) # Len(input.vector)

\* C8 as stated: the calculator's matrixMultiply and vectorMatrixMultiply and
\* the free function matrixMultiply fail whenever the inner dimensions of
\* their operands differ; none returns a result for mismatched operands.
C8_ShapeChecked == InnerMismatch => ~ret.ok

\* C11 as stated: the vif array of a returned fit has exactly one entry per
\* design-matrix column, in column order, so that vif[i] belongs to
\* coefficients[i]; with the intercept the entry at index 0 is NaN, without it
\* the array has no placeholder and starts at the first predictor.
C11_VifAlignedWithCoefficients ==
    Returned("calculate") =>
        /\ Len(ret.val.vif) = DesignWidth
        /\ input.includeIntercept => ret.val.vif[1] = NaN
        /\ ~input.includeIntercept => Len(ret.val.vif) = PredictorCount
        /\ DOMAIN ret.val.vif = DOMAIN ret.val.coefficients

FirstPredictor == IF input.includeIntercept THEN 2 ELSE 1

\* the auxiliary regression of design column i on the other predictors
AuxiliaryRegression(i) ==
    LET others == SelectSeq([c \in 1..Len(FitMatrix) |-> c],
                            LAMBDA c : c # i /\ c >= FirstPredictor)
        otherX == [c \in 1..Len(others) |-> FitMatrix[others[c]]]
    IN  IF Len(otherX) = 0 THEN Ok(<<>>)
        ELSE calculateCoefficients(otherX, removeMissingValues(FitMatrix[i], otherX).y)

AuxiliarySingular(i) ==
    /\ ~AuxiliaryRegression(i).ok
    /\ AuxiliaryRegression(i).err = "Matrix is singular or near-singular"

\* C12: when the auxiliary regression of a predictor raises the singular-matrix
\* error inside calculateVIF, the VIF recorded for that predictor is NaN, the
\* vif array still has its entry for every other predictor, and calculate
\* returns; an error of the observation guard, of the coefficient solve or of
\* the inversion of X'X is the outcome of calculate.
C12_AuxiliarySingularTolerated ==
    op = "calculate" =>
        /\ ret.ok <=> (~MainGuard /\ MainCoefficients.ok /\ MainInverse.ok)
        /\ MainGuard => ret = Err("Insufficient observations")
        /\ ~MainGuard /\ ~MainCoefficients.ok => ret = MainCoefficients
        /\ ~MainGuard /\ MainCoefficients.ok /\ ~MainInverse.ok => ret = MainInverse
        /\ ret.ok =>
              /\ Len(ret.val.vif) = Len(FitMatrix)
              /\ \A i \in FirstPredictor..Len(FitMatrix) :
                    AuxiliarySingular(i) => ret.val.vif[i] = NaN

\* a fit has returned although the auxiliary regression of one of its two
\* predictors was singular and that of the other was not
C12_Witness ==
    /\ Returned("calculate")
    /\ Len(input.X) = 2
    /\ \E i, j \in FirstPredictor..Len(FitMatrix) :
          /\ AuxiliarySingular(i) /\ ret.val.vif[i] = NaN
          /\ i # j /\ AuxiliaryRegression(j).ok

\* the response values computeOLS is given for the worksheet
ParsedY == readRegressionData(RC_transpose(input.X),
                              [r \in 1..Len(input.y) |-> <<input.y[r]>>]).Y

\* fitted + residual is the response value; a sum that is a finite double left
\* open is taken to agree up to rounding
AddsUpTo(fitted, residual, y) ==
    LET s == Add(fitted, residual) IN IsUnk(s) \/ StrictEq(s, y)

\* C13 as stated: in every fit calculate or computeOLS returns, with or
\* without intercept, the fitted values and the residuals both have length n,
\* and fitted value plus residual is the response value of that retained row.
C13_FittedPlusResidual ==
    /\ Returned("calculate") =>
          /\ Len(ret.val.fittedValues) = ret.val.n
          /\ Len(ret.val.residuals) = ret.val.n
          /\ \A i \in 1..ret.val.n :
                AddsUpTo(ret.val.fittedValues[i], ret.val.residuals[i], CleanedData.y[i])
    /\ Returned("computeOLS") =>
          /\ Len(ret.val.Y_fit) = ret.val.n
          /\ Len(ret.val.residuals) = ret.val.n
          /\ \A i \in 1..ret.val.n :
                AddsUpTo(ret.val.Y_fit[i], ret.val.residuals[i], ParsedY[i])

\* a computed figure agrees with the expected one; a finite double left open
\* on either side is taken to agree up to rounding
Agrees(computed, expected) ==
    IsUnk(computed) \/ IsUnk(expected) \/ StrictEq(computed, expected)

\* the explained and the residual sum of squares of a fit, from its fitted
\* values, its residuals and the responses it was fitted to
ExplainedSS(fitted, y) == SumSqDev(fitted, Div(SeqSum(y, Len(y)), Num(Len(y))), Len(fitted))
ResidualSS(residuals) == SumSq(residuals, Len(residuals))

\* C14 as stated: in every fit calculate or computeOLS returns, with or
\* without intercept, the total sum of squares is the sum of the SSR and SSE
\* fields, the SSR field is the explained sum of squares (fitted values
\* against the mean response) and the SSE field is the sum of squared residuals.
C14_SumsOfSquares ==
    /\ Returned("calculate") =>
          /\ Agrees(Add(ret.val.SSR, ret.val.SSE), ret.val.SST)
          /\ Agrees(ret.val.SSR, ExplainedSS(ret.val.fittedValues, CleanedData.y))
          /\ Agrees(ret.val.SSE, ResidualSS(ret.val.residuals))
    /\ Returned("computeOLS") =>
          /\ Agrees(Add(ret.val.SSR, ret.val.SSE), ret.val.TSS)
          /\ Agrees(ret.val.SSR, ExplainedSS(ret.val.Y_fit, ParsedY))
          /\ Agrees(ret.val.SSE, ResidualSS(ret.val.residuals))

\* C15 as stated: on a worksheet whose response is exactly the design matrix
\* times beta, the design matrix having full column rank, calculate returns,
\* its coefficients are beta, all its residuals are 0 and its R-squared is 1.
C15_ExactRecovery ==
    op = "calculate" =>
        /\ ret.ok
        /\ Len(ret.val.coefficients) = Len(input.beta)
        /\ \A i \in 1..Len(input.beta) : Agrees(ret.val.coefficients[i], input.beta[i])
        /\ \A r \in 1..Len(ret.val.residuals) : Agrees(ret.val.residuals[r], Zero)
        /\ Agrees(ret.val.rSquared, Num(1))

\* two numbers are the same entry: the same value, NaN counting as equal to NaN
\* and -0 as equal to 0
SameEntry(a, b) == a = b \/ (IsZero(a) /\ IsZero(b))

\* the result calculate returns for the worksheet
Calculated ==
    calculate(readRangeClean(input.y),
              [c \in 1..Len(input.X) |-> readRangeClean(input.X[c])],
              input.includeIntercept).val

\* the loaded record equals the stored one, field by field and element by element
SameRecord(loaded, stored) ==
    /\ DOMAIN loaded = DOMAIN stored
    /\ \A f \in DOMAIN stored :
          IF f \in ArrayFields
          THEN /\ Len(loaded[f]) = Len(stored[f])
               /\ \A i \in 1..Len(stored[f]) : SameEntry(loaded[f][i], stored[f][i])
          ELSE IF f \in NumberFields THEN SameEntry(loaded[f], stored[f])
          ELSE loaded[f] = stored[f]

\* C16 as stated: loadResults() called after storeResults(r), r being a
\* result of calculate, returns a record equal to r field by field and element
\* by element, the entries that are NaN (the intercept's VIF) included.
C16_StoreLoadRoundTrip ==
    (op = "loadResults" /\ IsHeld(sessionStorage.regressionResults)) =>
        ret.ok /\ SameRecord(ret.val, Calculated)

\* C17: in calculate no transpose, multiplication or inversion is performed
\* before the comparison of n with k, and when that comparison raises the
\* insufficient-observations error none has been performed at all.
C17_GuardBeforeMatrixWork ==
    /\ op \in {"idle", "validate", "clean", "check"} => calls = <<>>
    /\ (op = "calculate" /\ ret = Err("Insufficient observations")) => calls = <<>>

\* the guard has raised the error on a worksheet with too few complete rows
C17_Witness ==
    /\ op = "calculate"
    /\ ret = Err("Insufficient observations")
    /\ RowsKept < PredictorCount + 2
    /\ calls = <<>>

\* the upper alpha/2 quantile of Student's t, in thousandths, for alpha =
\* 0.10, 0.05, 0.01 and 1 to 6 degrees of freedom
StudentT ==
    [a \in AlphaLevels |->
        CASE a = Mk(10, 100) -> <<6314, 2920, 2353, 2132, 2015, 1943>>
          [] a = Mk(5, 100)  -> <<12706, 4303, 3182, 2776, 2571, 2447>>
          [] a = Mk(1, 100)  -> <<63657, 9925, 5841, 4604, 4032, 3707>>]

\* C18 as stated: the confidence bounds of a fit are coefficient -/+ t * SE,
\* t being the t critical value for the significance level the caller
\* supplied and the residual degrees of freedom.
C18_BoundsUseCallerAlpha ==
    op = "confidenceBounds" =>
        LET t == Mk(StudentT[input.alpha][input.dfResidual], 1000)
        IN  \A i \in 1..Len(input.coefficients) :
               /\ ret.val.confIntLower[i]
                    = Sub(input.coefficients[i], Mul(t, input.standardErrors[i]))
               /\ ret.val.confIntUpper[i]
                    = Add(input.coefficients[i], Mul(t, input.standardErrors[i]))

C20_ResultsMatchData ==
    IsHeld(regressionResults) =>
        /\ IsHeld(regressionData)
        /\ computeOLS(regressionData[1].X, regressionData[1].Y,
                      regressionResults[1].includeIntercept, regressionResults[1].alpha)
              = Ok(regressionResults[1])

\* the response or a listed predictor of the model specification has no range
MissingVariable ==
    LET modelSpec == input.modelSpec
    IN  \/ modelSpec.y = 0
        \/ modelSpec.ranges[modelSpec.y] = 0
        \/ \E c \in 1..Len(modelSpec.xn) : modelSpec.ranges[modelSpec.xn[c]] = 0
        \/ \E c \in 1..Len(modelSpec.xc) : modelSpec.ranges[modelSpec.xc[c]] = 0

\* C21: runRegression ends with an error thrown to its caller for every model
\* specification whose response is unspecified or has no range or in which a
\* listed numeric or categorical predictor has no range; the error is the one
\* raised by the preparation, and no range has been read and the estimator has
\* not been called.
C21_MissingVariableRejected ==
    (op = "runRegression" /\ MissingVariable) =>
        /\ ~ret.ok
        /\ ret.err \in {"Y variable not specified or missing range",
                        "Numeric variable missing range",
                        "Categorical variable missing range"}
        /\ calls = <<>>

\* a run was rejected for a categorical predictor without a range
C21_Witness ==
    /\ op = "runRegression"
    /\ \E c \in 1..Len(input.modelSpec.xc) :
          input.modelSpec.ranges[input.modelSpec.xc[c]] = 0
    /\ ret = Err("Categorical variable missing range")
    /\ calls = <<>>

\* C22 as stated: whenever a link to descriptive-stats.html or
\* correlation-analysis.html has just been clicked, the session store holds
\* under 'regressionModelVariables' the JSON of the variables list as most
\* recently set and under 'loadFromRegression' the text 'true'.
C22_ContextIsCurrent ==
    (op = "click" /\ input.href \in {"descriptive-stats.html", "correlation-analysis.html"}) =>
        /\ sessionStorage.regressionModelVariables
              = Held(JSON_stringifyNames(regressionVariablesList))
        /\ sessionStorage.loadFromRegression = Held("true")

\* every entry of the matrix is a finite number
FiniteMatrix(m) == \A r \in 1..Len(m) : \A c \in 1..Len(m[r]) : IsNum(m[r][c]) /\ IsFinite(m[r][c])

\* |augmented[r][i]| is the largest absolute value of column i in rows i..n
LargestInColumn(augmented, i, r) ==
    /\ r \in i..Len(augmented)
    /\ \A k \in i..Len(augmented) :
          \/ NGt(Abs(augmented[r][i]), Abs(augmented[k][i]))
          \/ NEq(Abs(augmented[r][i]), Abs(augmented[k][i]))

\* the pivot search of a step has chosen a row with the largest absolute value
PivotIsLargest == op = "pivot" => LargestInColumn(ret.val[1], ret.val[2], ret.val[3])

\* a step raises the singular error exactly when the chosen value is below 1e-10
RaisesWhenBelowTolerance ==
    op = "pivot" =>
        ((op' = "invertMatrix" /\ ~ret'.ok)
            <=> BelowTol(Abs(ret.val[1][ret.val[3]][ret.val[2]])))

\* m * r is the identity matrix
IsInverse(m, r) ==
    LET product == RC_matrixMultiply(m, r)
    IN  /\ product.ok
        /\ \A i \in 1..Len(m) : \A j \in 1..Len(m) :
              NEq(product.val[i][j], IF i = j THEN Num(1) ELSE Zero)

\* an error is raised by a step only; a returned matrix is the inverse and is
\* what invertMatrix as a whole returns
ReturnsInverse ==
    op = "invertMatrix" =>
        /\ ret = invertMatrix(input.matrix)
        /\ ret.ok => IsInverse(input.matrix, ret.val)

TabulatedDf == { tValues[i][1] : i \in 1..Len(tValues) }
EntryOf(df) == LET i == CHOOSE i \in 1..Len(tValues) : tValues[i][1] = df
               IN  Mk(tValues[i][2], 1000)

\* the smallest tabulated df' >= df
NextTabulated(df) ==
    CHOOSE d \in TabulatedDf : d >= df /\ \A e \in TabulatedDf : e >= df => d <= e

SameOutcome(fromBuckets, fromDropdowns) ==
    IF ~fromBuckets.ok \/ ~fromDropdowns.ok THEN ~fromBuckets.ok /\ ~fromDropdowns.ok
    ELSE \A field \in {"Y", "X", "variableNames", "n", "k", "numericCount", "categoricalCount"} :
            fromBuckets.val[field] = fromDropdowns.val[field]

\* C25 as stated: for the same loaded data and the same role assignment
\* prepareFromBuckets and prepareFromDropdowns produce the same outcome, both
\* null or records with equal Y, X, variableNames, n, k, numericCount and
\* categoricalCount.
C25_PreparationsAgree ==
    op \in {"prepareFromBuckets", "prepareFromDropdowns"} =>
        SameOutcome(prepareFromBuckets(input.variables, input.bucketAssignments),
                    prepareFromDropdowns(input.variables, input.roles))

\* C28 as stated: in the record prepareFromBuckets / prepareFromDropdowns
\* return, every dummy column of X has the value 1 in at least one retained
\* (complete-case) row.
C28_NoEmptyDummy ==
    Prepared =>
        \A v \in CategoricalColumns : \A c \in DummyColumns(v) :
            \E i \in 1..Len(ret.val.X) : ret.val.X[i][c] = Num(1)

\* the call that has just ended failed for one of the causes
NoDataOrUrl ==
    \/ ~IsHeld(integration.regressionData)
    \/ CONFIG.cloudFunctionUrl = "" \/ CONFIG.cloudFunctionUrl = PlaceholderUrl
FailedReply == input'.event = "reply" /\ ReplyFails(requests'[input'.request].reply[1])

\* C26: every failing call of computeDiagnostics (no regression data,
\* unconfigured URL, rejected fetch, non-ok HTTP status, response with ok =
\* false) raises an error to the caller and leaves diagnosticsResults as it
\* was; when the data is missing or the URL is the placeholder, no request is
\* issued.
C26_FailuresLeaveResults ==
    [][ /\ (input'.event = "call" /\ NoDataOrUrl) =>
              /\ op' = "computeDiagnostics" /\ ~ret'.ok /\ ret'.err # ""
              /\ integration'.diagnosticsResults = integration.diagnosticsResults
              /\ requests' = requests
        /\ FailedReply =>
              /\ op' = "computeDiagnostics" /\ ~ret'.ok /\ ret'.err # ""
              /\ integration'.diagnosticsResults = integration.diagnosticsResults ]_vars

\* a call has failed on a response with ok = false after an earlier call had
\* stored its diagnostics
C26_Witness ==
    /\ op = "computeDiagnostics" /\ ~ret.ok
    /\ input.event = "reply"
    /\ requests[input.request].reply = Held(Reply(FALSE, TRUE, TRUE, FALSE, "vif"))
    /\ IsHeld(integration.diagnosticsResults)

\* the element shows an error message
ErrorVisible(elementId) ==
    /\ statusEls[elementId].className = "status error"
    /\ statusEls[elementId].display = "block"

\* C27 as stated: an error status stays visible until a later showStatus or
\* hideStatus call for the same element; no timer of an earlier success or
\* info message hides it.
C27_ErrorStaysVisible ==
    [][ \A elementId \in StatusIds :
          ErrorVisible(elementId) =>
              \/ statusEls'[elementId] = statusEls[elementId]
              \/ op' \in {"showStatus", "hideStatus"} /\ input'.elementId = elementId ]_vars

\* a p-value that is missing, null or NaN
NoPValue(pValue) == pValue = Undef \/ pValue = Null \/ pValue = NaN

\* C29 as stated: on the results page, for a result stored by storeResults and
\* loaded by loadRegressionResults, a coefficient has stars only when its
\* p-value is a number below 0.1; a p-value that is missing, null or NaN is
\* shown as '---' without stars, and a missing F p-value is not reported as
\* significant.
C29_StarsOnlyForNumbers ==
    (op = "loadRegressionResults" /\ IsHeld(resultsPage)) =>
        LET shown == resultsPage[1]
        IN  /\ \A i \in 1..Len(shown.table) :
                 LET pValue == At(shown.results.pValues, i)
                 IN  /\ NoPValue(pValue) =>
                           shown.table[i].text = "---" /\ shown.table[i].stars = ""
                     /\ shown.table[i].stars \in {"***", "**", "*", "."} =>
                           IsNum(pValue) /\ NLt(pValue, Mk(1, 10))
            /\ NoPValue(shown.results.fPValue) => shown.fTest.significance # "significant"

\* C30 as stated: every call of readRange eventually settles, resolved with
\* the cleaned values or rejected with the error, also when Excel.run itself
\* rejects; readMultipleRanges does not wait forever on a read.
C30_ReadsSettle ==
    /\ (rangeRead.promise = "pending") ~> (rangeRead.promise \in {"fulfilled", "rejected"})
    /\ Reading ~> ~Reading

=============================================================================
